---- MODULE Spec2Model ----
(***************************************************************************)
(* Model of the consensus engine of src/server.js: the text heuristics,    *)
(* the review parser, the acceptance gate, the best-answer selector, the   *)
(* retrying transport behind the per-agent limiter, and the orchestrator   *)
(* runConsensus with the POST /api/consensus handler around it.            *)
(*                                                                         *)
(* Texts are sequences over a small alphabet of JavaScript string pieces:  *)
(* the letter "x", the full stop ".", the colon ":" (one member of the     *)
(* class [:\-...] of looksTruncated), the space " ", the newline "\n",     *)
(* and three multi-character pieces: the marker "END_OF_ANSWER", the       *)
(* connector word "and" and the unfinished-marker phrase "todo".           *)
(* Confidences are counted in tenths: 0.5 is 5, 0.2 is 2, 1 is 10.         *)
(***************************************************************************)
EXTENDS Integers, Sequences, FiniteSets, TLC

\* ------------------------------------------------------------------ bounds
\* the longest text, in pieces, a pure function is applied to
MaxLen == 3
\* the largest `iterations` field of a request in SessionEnv
MaxIters == 1
\* the largest number of rounds in the environments of several rounds
MaxRounds == 2
\* the attempts that may fail in one session (RetryEnv has its own count)
MaxFaults == 1
\* the session records; an environment names those that send a request
NumSessions == 2

\* ------------------------------------------------------- program constants
MAX_ANSWER_CHARS_FOR_REVIEW == 14000
ClaudeMaxRetries == 7
GPTMaxRetries == 5
ClaudeConcurrency == 1
GPTConcurrency == 2

EndToken == "END_OF_ANSWER"
Alphabet == {"x", ".", ":", " ", "\n", "and", "todo", EndToken}

RECURSIVE TextsOfLen(_)
TextsOfLen(n) ==
  IF n = 0 THEN {<<>>}
  ELSE {Append(t, c) : t \in TextsOfLen(n - 1), c \in Alphabet}

Texts(n) == UNION {TextsOfLen(k) : k \in 0..n}

\* ----------------------------------------------------------- text helpers
\* An operator that reads its argument more than once binds it first, as in
\* `t \in {text}`, so that the argument is computed once; the operator's
\* value is then the one element of the set built from it.
Only(S) == CHOOSE x \in S : TRUE

IsWs(c) == c \in {" ", "\n"}
IsWordPiece(c) == c \in {"x", "and", "todo", EndToken}

RECURSIVE TrimLeft(_)
TrimLeft(text) ==
  Only({IF t = <<>> THEN <<>>
        ELSE IF IsWs(Head(t)) THEN TrimLeft(Tail(t)) ELSE t : t \in {text}})

RECURSIVE TrimRight(_)
TrimRight(text) ==
  Only({IF t = <<>> THEN <<>>
        ELSE IF IsWs(t[Len(t)]) THEN TrimRight(SubSeq(t, 1, Len(t) - 1)) ELSE t
        : t \in {text}})

Trim(t) == TrimRight(TrimLeft(t))

PieceLen(c) ==
  IF c = EndToken THEN 13 ELSE IF c = "todo" THEN 4 ELSE IF c = "and" THEN 3 ELSE 1

RECURSIVE JsLength(_)
JsLength(text) ==
  Only({IF t = <<>> THEN 0 ELSE PieceLen(Head(t)) + JsLength(Tail(t)) : t \in {text}})

RECURSIVE SliceChars(_, _)
SliceChars(t, max) ==
  IF t = <<>> \/ PieceLen(Head(t)) > max THEN <<>>
  ELSE <<Head(t)>> \o SliceChars(Tail(t), max - PieceLen(Head(t)))

clampText(s, max, suffix) ==
  IF s = <<>> THEN <<>>
  ELSE IF JsLength(s) <= max THEN s ELSE SliceChars(s, max) \o <<suffix>>

clampForReview(t) ==
  clampText(t, MAX_ANSWER_CHARS_FOR_REVIEW, "\n...[TRUNCATED_FOR_REVIEW]...")

EndsWithDots(t) ==
  /\ Len(t) >= 3
  /\ t[Len(t)] = "." /\ t[Len(t) - 1] = "." /\ t[Len(t) - 2] = "."

looksTruncated(text) ==
  \E t \in {Trim(text)} :
  IF t = <<>> THEN TRUE
  ELSE IF t[Len(t)] = ":" THEN TRUE
  ELSE IF EndsWithDots(t) THEN TRUE
  ELSE IF Len(t) >= 2 /\ t[Len(t)] = "x" /\ IsWs(t[Len(t) - 1]) THEN TRUE
  ELSE IF t[Len(t)] = "and" /\ (Len(t) = 1 \/ t[Len(t) - 1] = " ") THEN TRUE
  ELSE IF t[Len(t)] = "todo" THEN TRUE
  ELSE FALSE

stripEndToken(t) ==
  Only({IF r # <<>> /\ r[Len(r)] = EndToken
        THEN Trim(SubSeq(r, 1, Len(r) - 1))
        ELSE TrimLeft(r) : r \in {TrimRight(t)}})

hasEndToken(text) ==
  \E t \in {text} : \E i \in 1..Len(t) :
    /\ t[i] = EndToken
    /\ (i = 1 \/ ~IsWordPiece(t[i - 1]))
    /\ (i = Len(t) \/ ~IsWordPiece(t[i + 1]))

\* the marker appended without the line break before it
ensureEndToken_NoLineBreak(t) ==
  Only({IF hasEndToken(s) THEN s
        ELSE s \o <<EndToken>>
        : s \in {Trim(t)}})

\* lines 121-124
ensureEndToken(t) ==
  Only({IF hasEndToken(s) THEN s
        ELSE IF s # <<>> THEN s \o <<"\n", EndToken>> ELSE <<EndToken>>
        : s \in {Trim(t)}})

\* ---------------------------------------------------------------- reviews
\* null / undefined of JavaScript
NULL == [absent |-> TRUE]

\* A decoded JSON value.  kind "boolean" carries b, "number" carries n (a
\* confidence in tenths, an array entry as it is), "string" carries s,
\* "array" carries items, themselves JSON values; "absent" is a missing key,
\* "null" the JSON null.
JAbsent == [kind |-> "absent", b |-> FALSE, n |-> 0, s |-> "", items |-> <<>>]
JNull == [JAbsent EXCEPT !.kind = "null"]
JBool(v) == [JAbsent EXCEPT !.kind = "boolean", !.b = v]
JNum(v) == [JAbsent EXCEPT !.kind = "number", !.n = v]
JStr(v) == [JAbsent EXCEPT !.kind = "string", !.s = v]
JArr(v) == [JAbsent EXCEPT !.kind = "array", !.items = v]

\* The text of a review response: json = FALSE is a text JSON.parse rejects
\* (or one that decodes to a falsy value); otherwise an object with fields.
Garbage ==
  [json |-> FALSE, decision |-> JAbsent, is_complete |-> JAbsent,
   has_unsupported_claims |-> JAbsent, has_contradictions |-> JAbsent,
   issues |-> JAbsent, suggestions |-> JAbsent, confidence |-> JAbsent]

ReviewJson(d, ic, uc, ct, iss, sug, conf) ==
  [json |-> TRUE, decision |-> d, is_complete |-> ic,
   has_unsupported_claims |-> uc, has_contradictions |-> ct,
   issues |-> iss, suggestions |-> sug, confidence |-> conf]

safeJsonParse(raw) == IF raw.json THEN raw ELSE NULL

\* String(obj.decision || "").toUpperCase()
DecisionString(j) ==
  IF j.kind = "string"
  THEN (IF j.s \in {"ACCEPT", "accept", "Accept"} THEN "ACCEPT"
        ELSE IF j.s \in {"REVISE", "revise"} THEN "REVISE"
        ELSE IF j.s = "" THEN "" ELSE "OTHER")
  ELSE IF j.kind = "boolean" /\ j.b THEN "TRUE"
  ELSE IF j.kind = "number" /\ j.n # 0 THEN "NUMBER"
  ELSE IF j.kind = "array" THEN "ARRAY"
  ELSE ""

\* +obj.confidence: the number (in tenths) and whether it is finite
ToNumber(j) ==
  IF j.kind = "number" THEN [finite |-> TRUE, n |-> j.n]
  ELSE IF j.kind = "null" THEN [finite |-> TRUE, n |-> 0]
  ELSE IF j.kind = "boolean" THEN [finite |-> TRUE, n |-> IF j.b THEN 10 ELSE 0]
  ELSE IF j.kind = "string" /\ j.s = "" THEN [finite |-> TRUE, n |-> 0]
  ELSE IF j.kind = "string" /\ j.s = "0.9" THEN [finite |-> TRUE, n |-> 9]
  ELSE IF j.kind = "array" /\ j.items = <<>> THEN [finite |-> TRUE, n |-> 0]
  ELSE [finite |-> FALSE, n |-> 0]

Min(a, b) == IF a <= b THEN a ELSE b
Max(a, b) == IF a >= b THEN a ELSE b

\* String(v) of an entry of a JSON array
StringOf(j) ==
  CASE j.kind = "string" -> j.s
    [] j.kind = "number" -> ToString(j.n)
    [] j.kind = "boolean" -> (IF j.b THEN "true" ELSE "false")
    [] j.kind = "null" -> "null"
    [] OTHER -> "[object Object]"

\* Array.isArray(v) ? v.slice(0, 10).map(String) : []
FirstTen(j) ==
  IF j.kind = "array"
  THEN [i \in 1..Min(10, Len(j.items)) |-> StringOf(j.items[i])]
  ELSE <<>>

parseReviewJson(text) ==
  Only({
  IF obj = NULL THEN NULL
  ELSE LET d == DecisionString(obj.decision) IN
    IF d # "ACCEPT" /\ d # "REVISE" THEN NULL
    ELSE [decision |-> d,
          is_complete |-> (obj.is_complete.kind = "boolean" /\ obj.is_complete.b),
          has_unsupported_claims |->
            (obj.has_unsupported_claims.kind = "boolean" /\ obj.has_unsupported_claims.b),
          has_contradictions |->
            (obj.has_contradictions.kind = "boolean" /\ obj.has_contradictions.b),
          issues |-> FirstTen(obj.issues),
          suggestions |-> FirstTen(obj.suggestions),
          confidence |->
            LET c == ToNumber(obj.confidence) IN
            IF c.finite THEN Max(0, Min(10, c.n)) ELSE 5]
  : obj \in {safeJsonParse(text)}})

\* the gate without its has_contradictions test
acceptByReview_NoContradictionTest(review, answerRaw) ==
  \E rev \in {review} :
  IF rev = NULL THEN FALSE
  ELSE IF rev.decision # "ACCEPT" THEN FALSE
  ELSE IF ~rev.is_complete \/ rev.has_unsupported_claims THEN FALSE
  ELSE IF ~hasEndToken(answerRaw) THEN FALSE
  ELSE IF looksTruncated(stripEndToken(answerRaw)) THEN FALSE
  ELSE TRUE

\* the gate with the truncation test on the raw answer
acceptByReview_TruncationOnRaw(review, answerRaw) ==
  \E rev \in {review} :
  IF rev = NULL THEN FALSE
  ELSE IF rev.decision # "ACCEPT" THEN FALSE
  ELSE IF ~rev.is_complete \/ rev.has_unsupported_claims \/ rev.has_contradictions
       THEN FALSE
  ELSE IF ~hasEndToken(answerRaw) THEN FALSE
  ELSE IF looksTruncated(answerRaw) THEN FALSE
  ELSE TRUE

\* lines 368-375
acceptByReview(review, answerRaw) ==
  \E rev \in {review} :
  IF rev = NULL THEN FALSE
  ELSE IF rev.decision # "ACCEPT" THEN FALSE
  ELSE IF ~rev.is_complete \/ rev.has_unsupported_claims \/ rev.has_contradictions
       THEN FALSE
  ELSE IF ~hasEndToken(answerRaw) THEN FALSE
  ELSE IF looksTruncated(stripEndToken(answerRaw)) THEN FALSE
  ELSE TRUE

Confidence(rev) == IF rev = NULL THEN 5 ELSE rev.confidence

\* the last line with `>` for `>=`: a full tie goes to Claude
pickBest_TieToClaude(cAns, gAns, cReviewOfG, gReviewOfC) ==
  LET cScore == Confidence(gReviewOfC)
      gScore == Confidence(cReviewOfG) IN
  IF gScore > cScore THEN gAns
  ELSE IF cScore > gScore THEN cAns
  ELSE IF JsLength(gAns) > JsLength(cAns) THEN gAns ELSE cAns

\* lines 377-383
pickBest(cAns, gAns, cReviewOfG, gReviewOfC) ==
  LET cScore == Confidence(gReviewOfC)
      gScore == Confidence(cReviewOfG) IN
  IF gScore > cScore THEN gAns
  ELSE IF cScore > gScore THEN cAns
  ELSE IF JsLength(gAns) >= JsLength(cAns) THEN gAns ELSE cAns

\* a default critique that finds nothing to revise
defaultReview_Accepting ==
  [decision |-> "ACCEPT", is_complete |-> TRUE, has_unsupported_claims |-> FALSE,
   has_contradictions |-> FALSE, issues |-> <<>>,
   suggestions |-> <<>>, confidence |-> 9]

\* lines 411-419
defaultReview ==
  [decision |-> "REVISE", is_complete |-> FALSE, has_unsupported_claims |-> TRUE,
   has_contradictions |-> FALSE, issues |-> <<"Review parse failed">>,
   suggestions |-> <<"Be complete and grounded.">>, confidence |-> 2]


\* ------------------------------------------------------------------ prompts
\* A prompt or message content: the builder that made it and what it embeds.
makeSolverPrompt(roleName) ==
  [kind |-> "solver", name |-> roleName, answer |-> <<>>, critique |-> NULL,
   corrective |-> FALSE]

makeReviewPrompt(answerText, reviewerName) ==
  [kind |-> "review", name |-> reviewerName, answer |-> clampForReview(answerText),
   critique |-> NULL, corrective |-> FALSE]

\* the critique lines the revision template prints (it prints no confidence)
makeRevisionPrompt(yourName, otherAnswer, reviewJson) ==
  [kind |-> "revision", name |-> yourName, answer |-> clampForReview(otherAnswer),
   critique |-> [decision |-> reviewJson.decision,
                 is_complete |-> reviewJson.is_complete,
                 has_unsupported_claims |-> reviewJson.has_unsupported_claims,
                 has_contradictions |-> reviewJson.has_contradictions,
                 issues |-> reviewJson.issues,
                 suggestions |-> reviewJson.suggestions],
   corrective |-> FALSE]

\* `${ans}\nEND_OF_ANSWER`
AssistantContent(ans) ==
  [kind |-> "answer", name |-> "", answer |-> ans \o <<"\n", EndToken>>,
   critique |-> NULL, corrective |-> FALSE]

\* `Return ONLY valid JSON.\n\n${prompt}`
CorrectivePrompt(prompt) == [prompt EXCEPT !.corrective = TRUE]

Turn(role, content) == [role |-> role, content |-> content]

\* -------------------------------------------------------------------- state
Sessions == 1..NumSessions

VARIABLES
  env,            \* what the clients and the two agents may do in this run
  apiCalls,       \* let apiCalls (line 79)
  pLimitDefault,  \* _pLimitDefault is set (line 135)
  claudeLimit,    \* the limiter of Claude, or NULL (line 136)
  gptLimit,       \* the limiter of GPT, or NULL (line 137)
  sess,           \* one request of POST /api/consensus per session
  probe           \* the last application of a pure function

vars == <<env, apiCalls, pLimitDefault, claudeLimit, gptLimit, sess, probe>>

NoCall ==
  [agent |-> "", messages |-> <<>>, isReview |-> FALSE, attempt |-> 0, waitMs |-> 0]

IdleSession ==
  [pc |-> "idle", pos |-> "none", mode |-> "", maxIters |-> 0, iterations |-> 0,
   claudeKey |-> FALSE, openaiKey |-> FALSE,
   headersSent |-> FALSE, ended |-> FALSE, httpStatus |-> 0,
   iter |-> 0, claudeMsgs |-> <<>>, gptMsgs |-> <<>>,
   lastClaude |-> <<>>, lastGPT |-> <<>>, lastCRG |-> NULL, lastGRC |-> NULL,
   claudeRaw |-> <<>>, claudeAns |-> <<>>, gptRaw |-> <<>>, gptAns |-> <<>>,
   crObj |-> NULL, grObj |-> NULL,
   call |-> NoCall, events |-> <<>>, log |-> <<>>, faults |-> 0]

NoProbe == [op |-> "none"]

\* ------------------------------------------------------------- the limiter
\* p-limit(concurrency): a count of running functions and a FIFO queue
pLimit(concurrency) == [concurrency |-> concurrency, activeCount |-> 0, queue |-> <<>>]

LimiterOf(agent) == IF agent = "Claude" THEN claudeLimit ELSE gptLimit

\* getLimiters up to its first suspension: TRUE when it must await the import
getLimitersAwaitsImport == (claudeLimit = NULL \/ gptLimit = NULL) /\ ~pLimitDefault

\* a limiter made anew by every caller that resumes from the import
CreatedClaudeLimit_Fresh == pLimit(ClaudeConcurrency)

\* lines 145-146, run once _pLimitDefault is set
CreatedClaudeLimit == IF claudeLimit = NULL THEN pLimit(ClaudeConcurrency) ELSE claudeLimit
CreatedGptLimit == IF gptLimit = NULL THEN pLimit(GPTConcurrency) ELSE gptLimit

Released(lim) == [lim EXCEPT !.activeCount = @ - 1]

\* ------------------------------------------------------------ orchestrator
sendEvent(r, e) == [r EXCEPT !.events = Append(@, e)]

\* a catch that ends the response without an `error` event
Throw_Silent(rec, message) ==
  [rec EXCEPT !.pc = "done", !.pos = "none", !.call = NoCall,
              !.headersSent = TRUE, !.ended = TRUE]

\* the catch of the handler (lines 619-628)
Throw(rec, message) ==
  Only({IF ~r.headersSent
        THEN [r EXCEPT !.pc = "done", !.pos = "none", !.call = NoCall,
                       !.httpStatus = 500, !.headersSent = TRUE, !.ended = TRUE]
        ELSE [sendEvent(r, [type |-> "error", message |-> message])
                EXCEPT !.pc = "done", !.pos = "none", !.call = NoCall, !.ended = TRUE]
        : r \in {rec}})

\* return from runConsensus, then res.end() (line 618)
Return(r) == [r EXCEPT !.pc = "done", !.pos = "none", !.call = NoCall, !.ended = TRUE]

KeyOf(r, agent) == IF agent = "Claude" THEN r.claudeKey ELSE r.openaiKey

\* callClaude / callGPT up to `await getLimiters()` (lines 156-157, 216-217)
StartCall(rec, agent, pos, messages, isReview) ==
  Only({IF ~KeyOf(r, agent) THEN Throw(r, "API key is required")
        ELSE [r EXCEPT !.pc = IF getLimitersAwaitsImport THEN "importing"
                              ELSE "limitersReady",
                       !.pos = pos,
                       !.call = [agent |-> agent, messages |-> messages,
                                 isReview |-> isReview, attempt |-> 0, waitMs |-> 0]]
        : r \in {rec}})

Iterations(mode, maxIters) == IF mode = "fast" THEN 1 ELSE maxIters

IsBad(ans, rev) ==
  \/ looksTruncated(ans)
  \/ (rev # NULL /\ rev.has_unsupported_claims)
  \/ (rev # NULL /\ rev.has_contradictions)

\* the fallback without its `bad` tests
FallbackAnswer_PickBestOnly(lastClaude, lastGPT, lastCRG, lastGRC) ==
  pickBest(lastClaude, lastGPT, lastCRG, lastGRC)

\* lines 527-532
FallbackAnswer(lastClaude, lastGPT, lastCRG, lastGRC) ==
  LET cBad == IsBad(lastClaude, lastGRC)
      gBad == IsBad(lastGPT, lastCRG) IN
  IF ~gBad /\ cBad THEN lastGPT
  ELSE IF ~cBad /\ gBad THEN lastClaude
  ELSE pickBest(lastClaude, lastGPT, lastCRG, lastGRC)

Fallback(rec, calls) ==
  Only({Return(sendEvent(r, [type |-> "fallback", totalCalls |-> calls,
          answer |-> Trim(FallbackAnswer(r.lastClaude, r.lastGPT, r.lastCRG, r.lastGRC))]))
        : r \in {rec}})

\* the loop test off by one
LoopCondition_OneMore(iter, iterations) == iter <= iterations + 1

LoopCondition(iter, iterations) == iter <= iterations

\* a round that opens with GPT's solve call
BeginRound_GptFirst(rec, calls) ==
  Only({IF LoopCondition(r.iter, r.iterations)
        THEN StartCall(
               sendEvent(sendEvent(r, [type |-> "iteration", iteration |-> r.iter]),
                         [type |-> "step", model |-> "GPT", action |-> "solving"]),
               "GPT", "gptSolve", r.gptMsgs, FALSE)
        ELSE Fallback(r, calls)
        : r \in {rec}})

\* the head of the for loop (line 421) up to the await of Claude's solve call
BeginRound(rec, calls) ==
  Only({IF LoopCondition(r.iter, r.iterations)
        THEN StartCall(
               sendEvent(sendEvent(r, [type |-> "iteration", iteration |-> r.iter]),
                         [type |-> "step", model |-> "Claude", action |-> "solving"]),
               "Claude", "claudeSolve", r.claudeMsgs, FALSE)
        ELSE Fallback(r, calls)
        : r \in {rec}})

\* GPT's solve step announced before Claude's answer is sent
OnClaudeSolve_StepBeforeAnswer(r, claudeRawNoEnd) ==
  LET claudeRaw == ensureEndToken(claudeRawNoEnd)
      claudeAns == stripEndToken(claudeRaw)
      r1 == [r EXCEPT !.claudeRaw = claudeRaw, !.claudeAns = claudeAns,
                      !.lastClaude = claudeAns]
      r2 == sendEvent(r1, [type |-> "step", model |-> "GPT", action |-> "solving"])
      r3 == sendEvent(r2, [type |-> "answer", model |-> "Claude", text |-> claudeAns])
  IN StartCall(r3, "GPT", "gptSolve", r.gptMsgs, FALSE)

\* lines 429-447: Claude's answer arrived
OnClaudeSolve(r, claudeRawNoEnd) ==
  LET claudeRaw == ensureEndToken(claudeRawNoEnd)
      claudeAns == stripEndToken(claudeRaw)
      r1 == [r EXCEPT !.claudeRaw = claudeRaw, !.claudeAns = claudeAns,
                      !.lastClaude = claudeAns]
      r2 == sendEvent(r1, [type |-> "answer", model |-> "Claude", text |-> claudeAns])
      r3 == sendEvent(r2, [type |-> "step", model |-> "GPT", action |-> "solving"])
  IN StartCall(r3, "GPT", "gptSolve", r.gptMsgs, FALSE)

\* lines 440-451: GPT's answer arrived
OnGptSolve(r, gptRawMaybe) ==
  LET gptRaw == ensureEndToken(gptRawMaybe)
      gptAns == stripEndToken(gptRaw)
      r1 == [r EXCEPT !.gptRaw = gptRaw, !.gptAns = gptAns, !.lastGPT = gptAns]
      r2 == sendEvent(r1, [type |-> "answer", model |-> "GPT", text |-> gptAns])
      r3 == sendEvent(r2, [type |-> "step", model |-> "Claude", action |-> "reviewing GPT"])
      crPrompt == makeReviewPrompt(gptAns, "Claude (reviewer)")
  IN StartCall(r3, "Claude", "crFirst", <<Turn("user", crPrompt)>>, TRUE)

\* no second review call
NeedsRetry_Never(obj) == FALSE

\* `if (!crObj)` (lines 453, 471)
NeedsRetry(obj) == obj = NULL

\* lines 460-469: Claude's review is settled
AfterClaudeReview(r, crObj) ==
  LET r1 == [r EXCEPT !.crObj = crObj, !.lastCRG = crObj]
      r2 == sendEvent(r1, [type |-> "review", reviewer |-> "Claude",
                           reviewed |-> "GPT", result |-> crObj])
      r3 == sendEvent(r2, [type |-> "step", model |-> "GPT", action |-> "reviewing Claude"])
      grPrompt == makeReviewPrompt(r.claudeAns, "GPT (reviewer)")
  IN StartCall(r3, "GPT", "grFirst", <<Turn("user", grPrompt)>>, FALSE)

\* lines 452-457: the first review of GPT's answer arrived
OnClaudeReviewFirst(r, crRaw) ==
  LET crObj == parseReviewJson(crRaw)
      crPrompt == makeReviewPrompt(r.gptAns, "Claude (reviewer)")
  IN IF NeedsRetry(crObj)
     THEN StartCall(r, "Claude", "crRetry",
                    <<Turn("user", CorrectivePrompt(crPrompt))>>, TRUE)
     ELSE AfterClaudeReview(r, crObj)

\* line 458
OnClaudeReviewRetry(r, crRaw) == AfterClaudeReview(r, parseReviewJson(crRaw))

\* the gate with `||` in place of `&&`
BothAccepted_Either(gAccepted, cAccepted) == gAccepted \/ cAccepted

\* the gate never passes
BothAccepted_Never(gAccepted, cAccepted) == FALSE

\* line 494
BothAccepted(gAccepted, cAccepted) == gAccepted /\ cAccepted

\* fast mode taken for robust: the gate decides
FastMode_Never(mode) == FALSE

\* line 482
FastMode(mode) == mode = "fast"

Consensus(rec, calls) ==
  Only({Return(sendEvent(r, [type |-> "consensus", iteration |-> r.iter,
          totalCalls |-> calls,
          answer |-> pickBest(r.claudeAns, r.gptAns, r.crObj, r.grObj)]))
        : r \in {rec}})

\* each agent is handed the critique it wrote itself
Revision_OwnCritique(rec) ==
  Only({[r EXCEPT
          !.claudeMsgs = @ \o
             <<Turn("assistant", AssistantContent(r.claudeAns)),
               Turn("user", makeRevisionPrompt("Claude", r.gptAns,
                      IF r.crObj # NULL THEN r.crObj ELSE defaultReview))>>,
          !.gptMsgs = @ \o
             <<Turn("assistant", AssistantContent(r.gptAns)),
               Turn("user", makeRevisionPrompt("GPT", r.claudeAns,
                      IF r.grObj # NULL THEN r.grObj ELSE defaultReview))>>,
          !.iter = @ + 1]
        : r \in {rec}})

\* lines 506-523 and the loop increment
Revision(rec) ==
  Only({[r EXCEPT
          !.claudeMsgs = @ \o
             <<Turn("assistant", AssistantContent(r.claudeAns)),
               Turn("user", makeRevisionPrompt("Claude", r.gptAns,
                      IF r.grObj # NULL THEN r.grObj ELSE defaultReview))>>,
          !.gptMsgs = @ \o
             <<Turn("assistant", AssistantContent(r.gptAns)),
               Turn("user", makeRevisionPrompt("GPT", r.claudeAns,
                      IF r.crObj # NULL THEN r.crObj ELSE defaultReview))>>,
          !.iter = @ + 1]
        : r \in {rec}})

\* lines 478-524: GPT's review is settled
AfterGptReview(r, grObj, calls) ==
  LET r1 == [r EXCEPT !.grObj = grObj, !.lastGRC = grObj]
      r2 == sendEvent(r1, [type |-> "review", reviewer |-> "GPT",
                           reviewed |-> "Claude", result |-> grObj])
  IN IF FastMode(r2.mode) THEN Consensus(r2, calls)
     ELSE LET gAccepted == acceptByReview(r2.crObj, r2.gptRaw)
              cAccepted == acceptByReview(r2.grObj, r2.claudeRaw)
          IN IF BothAccepted(gAccepted, cAccepted) THEN Consensus(r2, calls)
             ELSE BeginRound(Revision(sendEvent(r2,
                    [type |-> "status", message |-> "revising", iteration |-> r2.iter])),
                    calls)

\* lines 470-475
OnGptReviewFirst(r, grRaw, calls) ==
  LET grObj == parseReviewJson(grRaw)
      grPrompt == makeReviewPrompt(r.claudeAns, "GPT (reviewer)")
  IN IF NeedsRetry(grObj)
     THEN StartCall(r, "GPT", "grRetry",
                    <<Turn("user", CorrectivePrompt(grPrompt))>>, FALSE)
     ELSE AfterGptReview(r, grObj, calls)

\* line 476
OnGptReviewRetry(r, grRaw, calls) == AfterGptReview(r, parseReviewJson(grRaw), calls)


\* lines 398-422: runConsensus from its entry to the first await
runConsensus(r, calls) ==
  LET iterations == Iterations(r.mode, r.maxIters)
      r1 == sendEvent([r EXCEPT !.iterations = iterations],
                      [type |-> "status", message |-> "mode", mode |-> r.mode,
                       iterations |-> iterations])
      r2 == [r1 EXCEPT !.claudeMsgs = <<Turn("user", makeSolverPrompt("Claude"))>>,
                       !.gptMsgs = <<Turn("user", makeSolverPrompt("GPT"))>>,
                       !.lastClaude = <<>>, !.lastGPT = <<>>,
                       !.lastCRG = NULL, !.lastGRC = NULL, !.iter = 1]
  IN BeginRound(r2, calls)

\* ---------------------------------------------------------------- handler
\* String(req.body.mode || "").toLowerCase() === "fast" ? "fast" : "robust"
ParseMode(modeRaw) == IF modeRaw \in {"fast", "FAST", "Fast"} THEN "fast" ELSE "robust"

\* parseInt(req.body.iterations) || 5
ParseIntOr5(itersRaw) == IF itersRaw.isInt /\ itersRaw.n # 0 THEN itersRaw.n ELSE 5

\* no upper limit on the requested rounds
ParseMaxIters_NoUpperLimit(mode, itersRaw) ==
  IF mode = "fast" THEN 1 ELSE Max(1, ParseIntOr5(itersRaw))

\* line 547
ParseMaxIters(mode, itersRaw) ==
  IF mode = "fast" THEN 1 ELSE Min(20, Max(1, ParseIntOr5(itersRaw)))

\* the limiter a call start leaves behind: created when getLimiters ran through
AfterStart(r, lim, concurrency) ==
  IF r.pc = "limitersReady" /\ lim = NULL THEN pLimit(concurrency) ELSE lim

\* the session record after a step of runConsensus that ended the call of
\* `agent`; its limiter slot is released
Continue(s, next, agent) ==
  \E r \in {next} :
    /\ sess' = [sess EXCEPT ![s] = r]
    /\ claudeLimit' =
         AfterStart(r, IF agent = "Claude" THEN Released(claudeLimit) ELSE claudeLimit,
                    ClaudeConcurrency)
    /\ gptLimit' =
         AfterStart(r, IF agent = "GPT" THEN Released(gptLimit) ELSE gptLimit,
                    GPTConcurrency)
    /\ UNCHANGED <<env, apiCalls, pLimitDefault, probe>>

\* runConsensus is entered with the session record r0 and runs to its first
\* await; apiCalls = 0 (line 391)
Entered(s, r0) ==
  \E r1 \in {runConsensus(r0, 0)} :
    /\ sess' = [sess EXCEPT ![s] = r1]
    /\ apiCalls' = 0
    /\ claudeLimit' = AfterStart(r1, claudeLimit, ClaudeConcurrency)
    /\ gptLimit' = AfterStart(r1, gptLimit, GPTConcurrency)
    /\ UNCHANGED <<env, pLimitDefault, probe>>

\* runConsensus({ mode, maxIters, ... }) called with any maxIters on an open
\* event stream (line 390)
Call(s, mode, maxIters) ==
  /\ sess[s].pc = "idle"
  /\ Entered(s, [sess[s] EXCEPT !.mode = mode, !.maxIters = maxIters,
                                !.claudeKey = TRUE, !.openaiKey = TRUE,
                                !.headersSent = TRUE, !.httpStatus = 200])

\* a handler that does not validate the keys: a missing key is found by
\* callClaude / callGPT only
Request_KeysNotValidated(s, modeRaw, itersRaw, ck, ok, hasInput) ==
  /\ sess[s].pc = "idle"
  /\ LET mode == ParseMode(modeRaw)
         maxIters == ParseMaxIters(mode, itersRaw)
         r0 == [sess[s] EXCEPT !.mode = mode, !.maxIters = maxIters,
                               !.claudeKey = ck, !.openaiKey = ok]
     IN IF ~hasInput
        THEN /\ sess' = [sess EXCEPT ![s] =
                  [r0 EXCEPT !.pc = "done", !.httpStatus = 400,
                             !.headersSent = TRUE, !.ended = TRUE]]
             /\ UNCHANGED <<env, apiCalls, pLimitDefault, claudeLimit, gptLimit, probe>>
        ELSE Entered(s, [r0 EXCEPT !.headersSent = TRUE, !.httpStatus = 200])

\* POST /api/consensus (lines 542-617) down to the first await of runConsensus
Request(s, modeRaw, itersRaw, ck, ok, hasInput) ==
  /\ sess[s].pc = "idle"
  /\ LET mode == ParseMode(modeRaw)
         maxIters == ParseMaxIters(mode, itersRaw)
         r0 == [sess[s] EXCEPT !.mode = mode, !.maxIters = maxIters,
                               !.claudeKey = ck, !.openaiKey = ok]
     IN IF ~ck \/ ~ok \/ ~hasInput
        THEN /\ sess' = [sess EXCEPT ![s] =
                  [r0 EXCEPT !.pc = "done", !.httpStatus = 400,
                             !.headersSent = TRUE, !.ended = TRUE]]
             /\ UNCHANGED <<env, apiCalls, pLimitDefault, claudeLimit, gptLimit, probe>>
        ELSE Entered(s, [r0 EXCEPT !.headersSent = TRUE, !.httpStatus = 200])

\* -------------------------------------------------------------- transport
\* getLimiters resumes after `await import("p-limit")` (lines 143-148)
ImportResolved(s) ==
  /\ sess[s].pc = "importing"
  /\ pLimitDefault' = TRUE
  /\ claudeLimit' = CreatedClaudeLimit
  /\ gptLimit' = CreatedGptLimit
  /\ sess' = [sess EXCEPT ![s].pc = "limitersReady"]
  /\ UNCHANGED <<env, apiCalls, probe>>

\* claudeLimit(fn) / gptLimit(fn): the function joins the limiter's queue
Enqueue(s) ==
  /\ sess[s].pc = "limitersReady"
  /\ IF sess[s].call.agent = "Claude"
     THEN /\ claudeLimit' = [claudeLimit EXCEPT !.queue = Append(@, s)]
          /\ UNCHANGED gptLimit
     ELSE /\ gptLimit' = [gptLimit EXCEPT !.queue = Append(@, s)]
          /\ UNCHANGED claudeLimit
  /\ sess' = [sess EXCEPT ![s].pc = "queued"]
  /\ UNCHANGED <<env, apiCalls, pLimitDefault, probe>>

Last(q) == q[Len(q)]

\* apiCalls++ and axios.post of one attempt (lines 166-185, 226-247)
Attempt(r) ==
  [r EXCEPT !.pc = "inflight",
            !.log = Append(@, [agent |-> r.call.agent, pos |-> r.pos, iter |-> r.iter,
                               attempt |-> r.call.attempt,
                               prompt |-> Last(r.call.messages).content,
                               outcome |-> "pending", status |-> 0, shouldRetry |-> FALSE,
                               text |-> <<>>, raw |-> Garbage])]

Logged(r, outcome, status, text, raw) ==
  [r EXCEPT !.log[Len(r.log)] =
     [@ EXCEPT !.outcome = outcome, !.status = status, !.text = text, !.raw = raw]]

Failed(r, outcome, err) ==
  [r EXCEPT !.log[Len(r.log)] =
     [@ EXCEPT !.outcome = outcome, !.status = err.status,
               !.shouldRetry = err.shouldRetry]]

\* a limiter that starts a queued function whatever its active count
CanRun_NoCap(lim, s) ==
  /\ lim.queue # <<>>
  /\ Head(lim.queue) = s

\* p-limit starts the head of the queue while activeCount < concurrency
CanRun(lim, s) ==
  /\ lim.activeCount < lim.concurrency
  /\ lim.queue # <<>>
  /\ Head(lim.queue) = s

Dequeued(lim) == [lim EXCEPT !.activeCount = @ + 1, !.queue = Tail(@)]

\* the limiter starts the queued function: first attempt of the retry loop
RunQueued(s) ==
  /\ sess[s].pc = "queued"
  /\ CanRun(LimiterOf(sess[s].call.agent), s)
  /\ IF sess[s].call.agent = "Claude"
     THEN claudeLimit' = Dequeued(claudeLimit) /\ UNCHANGED gptLimit
     ELSE gptLimit' = Dequeued(gptLimit) /\ UNCHANGED claudeLimit
  /\ apiCalls' = apiCalls + 1
  /\ sess' = [sess EXCEPT ![s] = Attempt(@)]
  /\ UNCHANGED <<env, pLimitDefault, probe>>

MaxRetriesOf(agent) == IF agent = "Claude" THEN ClaudeMaxRetries ELSE GPTMaxRetries

Is5xx(status) == status >= 500 /\ status <= 599

\* one retry rule for both agents: GPT heeds x-should-retry as Claude does
Retryable_SignalForBoth(agent, status, shouldRetry) ==
  shouldRetry \/ status = 529 \/ status = 429 \/ Is5xx(status)

\* lines 188-193 and 251-253; status 0 stands for an error without response
Retryable(agent, status, shouldRetry) ==
  IF agent = "Claude"
  THEN shouldRetry \/ status = 529 \/ status = 429 \/ Is5xx(status)
  ELSE status = 429 \/ Is5xx(status)

\* the catch rethrows at the ceiling only
MustThrow_OnlyAtCeiling(agent, status, shouldRetry, attempt) ==
  attempt = MaxRetriesOf(agent)

\* the catch never looks at the attempt number
MustThrow_NoCeiling(agent, status, shouldRetry, attempt) ==
  ~Retryable(agent, status, shouldRetry)

\* `if (!retryable || attempt === maxRetries) throw err` (lines 195, 255)
MustThrow(agent, status, shouldRetry, attempt) ==
  ~Retryable(agent, status, shouldRetry) \/ attempt = MaxRetriesOf(agent)

RECURSIVE Pow2(_)
Pow2(n) == IF n = 0 THEN 1 ELSE 2 * Pow2(n - 1)

\* one delay rule for both agents: GPT heeds retry-after as Claude does
WaitMs_HintForBoth(agent, attempt, retryAfter, jitter) ==
  IF retryAfter.finite /\ retryAfter.n > 0
  THEN Min(30000, retryAfter.n * 1000)
  ELSE Min(15000, 800 * Pow2(attempt)) + jitter

\* lines 197-203 and 257-258; retryAfter is Number(headers["retry-after"])
WaitMs(agent, attempt, retryAfter, jitter) ==
  IF agent = "Claude" /\ retryAfter.finite /\ retryAfter.n > 0
  THEN Min(30000, retryAfter.n * 1000)
  ELSE Min(15000, 800 * Pow2(attempt)) + jitter

\* the attempt failed and the catch rethrows (lines 195, 255): the limiter
\* slot is freed and the handler's catch ends the response
HttpErrorThrown(s, err) ==
  /\ sess[s].pc = "inflight"
  /\ sess[s].faults < env.faults
  /\ s \in env.faulty
  /\ sess[s].pos \in env.faultAt
  /\ sess[s].iter \in env.faultIn
  /\ err \in env.errors
  /\ MustThrow(sess[s].call.agent, err.status, err.shouldRetry, sess[s].call.attempt)
  /\ Continue(s, Throw([Failed(sess[s], "thrown", err)
                           EXCEPT !.faults = @ + 1], "request failed"),
              sess[s].call.agent)

\* the attempt failed and the catch goes to sleep (lines 197-205, 257-260)
HttpErrorRetried(s, err, jitter) ==
  /\ sess[s].pc = "inflight"
  /\ sess[s].faults < env.faults
  /\ s \in env.faulty
  /\ sess[s].pos \in env.faultAt
  /\ sess[s].iter \in env.faultIn
  /\ err \in env.errors
  /\ jitter \in env.jitters
  /\ ~MustThrow(sess[s].call.agent, err.status, err.shouldRetry, sess[s].call.attempt)
  /\ sess' = [sess EXCEPT ![s] =
       [Failed(@, "retried", err)
          EXCEPT !.pc = "sleeping", !.faults = @ + 1,
                 !.call.waitMs = WaitMs(sess[s].call.agent, sess[s].call.attempt,
                                        err.retryAfter, jitter)]]
  /\ UNCHANGED <<env, apiCalls, pLimitDefault, claudeLimit, gptLimit, probe>>

\* what runConsensus does with the text a call returned
Deliver(r, text, raw, calls) ==
  CASE r.pos = "claudeSolve" -> OnClaudeSolve(r, text)
    [] r.pos = "gptSolve" -> OnGptSolve(r, text)
    [] r.pos = "crFirst" -> OnClaudeReviewFirst(r, raw)
    [] r.pos = "crRetry" -> OnClaudeReviewRetry(r, raw)
    [] r.pos = "grFirst" -> OnGptReviewFirst(r, raw, calls)
    [] r.pos = "grRetry" -> OnGptReviewRetry(r, raw, calls)

\* the sleep is over: attempt++ and the loop test (lines 164, 224); when the
\* test fails the call returns "" (lines 208, 263)
BackoffDone(s) ==
  /\ sess[s].pc = "sleeping"
  /\ LET r == [sess[s] EXCEPT !.call.attempt = @ + 1, !.call.waitMs = 0]
     IN IF r.call.attempt <= MaxRetriesOf(r.call.agent)
        THEN /\ sess' = [sess EXCEPT ![s] = Attempt(r)]
             /\ apiCalls' = apiCalls + 1
             /\ UNCHANGED <<env, pLimitDefault, claudeLimit, gptLimit, probe>>
        ELSE /\ Continue(s, Deliver(r, <<>>, Garbage, apiCalls), r.call.agent)

\* resp.data?.content?.[0]?.text ?? "" (line 186)
ClaudeSolved(s, text) ==
  /\ sess[s].pc = "inflight" /\ sess[s].pos = "claudeSolve"
  /\ text \in env.texts
  /\ Continue(s, Deliver(Logged(sess[s], "ok", 200, text, Garbage), text, Garbage, apiCalls),
              "Claude")

\* extractResponseText(resp.data)?.trim() || "" (lines 248-249)
GptSolved(s, text) ==
  /\ sess[s].pc = "inflight" /\ sess[s].pos = "gptSolve"
  /\ text \in env.texts
  /\ Continue(s, Deliver(Logged(sess[s], "ok", 200, text, Garbage), Trim(text), Garbage,
                         apiCalls), "GPT")

ClaudeReviewed(s, raw) ==
  /\ sess[s].pc = "inflight" /\ sess[s].pos \in {"crFirst", "crRetry"}
  /\ raw \in env.claudeReviews
  /\ Continue(s, Deliver(Logged(sess[s], "ok", 200, <<>>, raw), <<>>, raw, apiCalls),
              "Claude")

GptReviewed(s, raw) ==
  /\ sess[s].pc = "inflight" /\ sess[s].pos \in {"grFirst", "grRetry"}
  /\ raw \in env.gptReviews
  /\ Continue(s, Deliver(Logged(sess[s], "ok", 200, <<>>, raw), <<>>, raw, apiCalls),
              "GPT")

\* ------------------------------------------------------------ environments
IntField(n) == [isInt |-> TRUE, n |-> n]
NoNumber == [finite |-> FALSE, n |-> 0]

HttpError(status, shouldRetry, retryAfter) ==
  [status |-> status, shouldRetry |-> shouldRetry, retryAfter |-> retryAfter]

GoodReview ==
  ReviewJson(JStr("ACCEPT"), JBool(TRUE), JBool(FALSE), JBool(FALSE),
             JArr(<<>>), JArr(<<>>), JNum(9))
FlaggedReview ==
  ReviewJson(JStr("REVISE"), JBool(FALSE), JBool(TRUE), JBool(FALSE),
             JArr(<<JStr("i1")>>), JArr(<<JStr("s1")>>), JNum(5))

IncompleteReview ==
  ReviewJson(JStr("REVISE"), JBool(FALSE), JBool(FALSE), JBool(FALSE),
             JArr(<<JStr("i1")>>), JArr(<<>>), JNum(3))
ContradictedReview ==
  ReviewJson(JStr("REVISE"), JBool(TRUE), JBool(FALSE), JBool(TRUE),
             JArr(<<JStr("i1")>>), JArr(<<>>), JNum(7))

Positions == {"claudeSolve", "gptSolve", "crFirst", "crRetry", "grFirst", "grRetry"}

\* What a run may see: the sessions that send a request, the request
\* fields, the texts and review responses of the two agents, the HTTP errors
\* of the transport with the sessions (faulty), calls (faultAt) and rounds
\* (faultIn) they may hit, and how many attempts may fail per session.

\* one session of few rounds: answers with and without the marker, reviews
\* that parse or not, accept or flag
SessionEnv ==
  [sessions |-> {1},
   modes |-> {"fast", "robust"},
   iters |-> {IntField(k) : k \in 1..MaxIters},
   texts |-> {<<"x", ".">>, <<"x", "x", ".", "\n", EndToken>>},
   claudeReviews |-> {Garbage, GoodReview, FlaggedReview},
   gptReviews |-> {Garbage, GoodReview},
   errors |-> {HttpError(401, FALSE, NoNumber), HttpError(429, FALSE, NoNumber)},
   jitters |-> {0},
   faulty |-> {1},
   faultAt |-> {"claudeSolve", "grFirst"},
   faultIn |-> 1..MaxIters,
   faults |-> MaxFaults]

\* one session of several rounds: answers complete or empty, reviews that
\* accept, ask for a revision or do not parse
RoundsEnv ==
  [sessions |-> {1},
   modes |-> {"fast", "robust"},
   iters |-> {IntField(k) : k \in 1..MaxRounds},
   texts |-> {<<>>, <<"x", ".">>},
   claudeReviews |-> {GoodReview, Garbage},
   gptReviews |-> {GoodReview, IncompleteReview},
   errors |-> {HttpError(401, FALSE, NoNumber), HttpError(429, FALSE, NoNumber)},
   jitters |-> {0},
   faulty |-> {1},
   faultAt |-> {"gptSolve"},
   faultIn |-> {1},
   faults |-> MaxFaults]

\* one session of several rounds, every call of which answers or throws
LiveEnv ==
  [sessions |-> {1},
   modes |-> {"fast", "robust"},
   iters |-> {IntField(k) : k \in 1..MaxRounds},
   texts |-> {<<"x", ".">>},
   claudeReviews |-> {GoodReview, Garbage},
   gptReviews |-> {GoodReview, Garbage},
   errors |-> {HttpError(401, FALSE, NoNumber), HttpError(429, FALSE, NoNumber)},
   jitters |-> {0},
   faulty |-> {1},
   faultAt |-> {"gptSolve", "grRetry"},
   faultIn |-> 1..MaxRounds,
   faults |-> MaxFaults]

\* one robust session of several rounds none of which passes the gate:
\* answers complete or empty, reviews that ask for a revision with or
\* without a flag or do not parse
FallbackEnv ==
  [sessions |-> {1},
   modes |-> {"robust"},
   iters |-> {IntField(k) : k \in 1..MaxRounds},
   texts |-> {<<>>, <<"x", ".">>},
   claudeReviews |-> {IncompleteReview, FlaggedReview},
   gptReviews |-> {Garbage, ContradictedReview},
   errors |-> {HttpError(401, FALSE, NoNumber), HttpError(429, FALSE, NoNumber)},
   jitters |-> {0},
   faulty |-> {1},
   faultAt |-> {"claudeSolve"},
   faultIn |-> {1},
   faults |-> MaxFaults]

\* one fast session; maxIters is any number of rounds; reviews accept, flag
\* or do not parse
FastEnv ==
  [sessions |-> {1},
   modes |-> {"fast"},
   iters |-> {IntField(k) : k \in 1..MaxRounds},
   texts |-> {<<>>, <<"x", ".">>},
   claudeReviews |-> {GoodReview, FlaggedReview, Garbage},
   gptReviews |-> {GoodReview, FlaggedReview, Garbage},
   errors |-> {HttpError(401, FALSE, NoNumber), HttpError(429, FALSE, NoNumber)},
   jitters |-> {0},
   faulty |-> {1},
   faultAt |-> {"gptSolve"},
   faultIn |-> {1},
   faults |-> MaxFaults]

\* every session sends a request of one fast round; Claude's solve call of
\* one of them may fail
ConcurrentEnv ==
  [sessions |-> Sessions,
   modes |-> {"fast"},
   iters |-> {IntField(1)},
   texts |-> {<<"x", ".">>},
   claudeReviews |-> {GoodReview},
   gptReviews |-> {GoodReview},
   errors |-> {HttpError(401, FALSE, NoNumber), HttpError(429, FALSE, NoNumber)},
   jitters |-> {0},
   faulty |-> {1},
   faultAt |-> {"claudeSolve"},
   faultIn |-> {1},
   faults |-> MaxFaults]

\* one session of one round in which every attempt may fail
RetryEnv ==
  [sessions |-> {1},
   modes |-> {"fast", "robust"},
   iters |-> {IntField(1)},
   texts |-> {<<"x", ".">>},
   claudeReviews |-> {GoodReview},
   gptReviews |-> {GoodReview},
   errors |-> {HttpError(401, FALSE, NoNumber), HttpError(429, FALSE, NoNumber),
               HttpError(401, TRUE, NoNumber)},
   jitters |-> {0},
   faulty |-> {1},
   faultAt |-> Positions,
   faultIn |-> {1},
   faults |-> ClaudeMaxRetries + 1]

\* the statuses around the edges of the retry rule, each with and without
\* the x-should-retry header; a few failures per session
PolicyEnv ==
  [sessions |-> {1},
   modes |-> {"fast"},
   iters |-> {IntField(1)},
   texts |-> {<<"x", ".">>},
   claudeReviews |-> {GoodReview},
   gptReviews |-> {GoodReview},
   errors |-> {HttpError(st, sr, NoNumber) :
                 st \in {0, 401, 429, 499, 500, 529, 599, 600}, sr \in BOOLEAN},
   jitters |-> {0},
   faulty |-> {1},
   faultAt |-> {"claudeSolve", "gptSolve"},
   faultIn |-> {1},
   faults |-> MaxFaults + 1]

\* robust sessions whose gate never passes, so that every round is revised:
\* answers that differ, a review of Claude's that parses or not, a review
\* of GPT's that asks for a revision
HistoryEnv ==
  [sessions |-> {1},
   modes |-> {"robust"},
   iters |-> {IntField(k) : k \in 1..MaxRounds},
   texts |-> {<<>>, <<"x", ".">>},
   claudeReviews |-> {GoodReview, Garbage},
   gptReviews |-> {IncompleteReview},
   errors |-> {HttpError(401, FALSE, NoNumber), HttpError(429, FALSE, NoNumber)},
   jitters |-> {0},
   faulty |-> {1},
   faultAt |-> {"claudeSolve"},
   faultIn |-> {1},
   faults |-> MaxFaults]

InitWith(e) ==
  /\ env = e
  /\ apiCalls = 0
  /\ pLimitDefault = FALSE
  /\ claudeLimit = NULL
  /\ gptLimit = NULL
  /\ sess = [s \in Sessions |-> IdleSession]
  /\ probe = NoProbe

Init == InitWith(SessionEnv)

Step(s) ==
  \/ \E m \in env.modes, i \in env.iters, ck \in BOOLEAN, ok \in BOOLEAN, h \in BOOLEAN :
       Request(s, m, i, ck, ok, h)
  \/ ImportResolved(s)
  \/ Enqueue(s)
  \/ RunQueued(s)
  \/ \E err \in env.errors : HttpErrorThrown(s, err)
  \/ \E err \in env.errors, j \in env.jitters : HttpErrorRetried(s, err, j)
  \/ BackoffDone(s)
  \/ \E t \in env.texts : ClaudeSolved(s, t)
  \/ \E t \in env.texts : GptSolved(s, t)
  \/ \E raw \in env.claudeReviews : ClaudeReviewed(s, raw)
  \/ \E raw \in env.gptReviews : GptReviewed(s, raw)

Next == \E s \in env.sessions : Step(s)

Spec == Init /\ [][Next]_vars

\* ------------------------------------------------ pure functions, applied
\* the reviews parseReviewJson can return, with one confidence
ParsedReviews ==
  {[decision |-> d, is_complete |-> ic, has_unsupported_claims |-> uc,
    has_contradictions |-> ct, issues |-> <<>>, suggestions |-> <<>>, confidence |-> 5] :
     d \in {"ACCEPT", "REVISE"}, ic \in BOOLEAN, uc \in BOOLEAN, ct \in BOOLEAN}

\* one application of acceptByReview (lines 368-375)
ApplyAccept(rev, raw) ==
  /\ probe' = [op |-> "acceptByReview", rev |-> rev, raw |-> raw,
               out |-> acceptByReview(rev, raw)]
  /\ UNCHANGED <<env, apiCalls, pLimitDefault, claudeLimit, gptLimit, sess>>

\* one application per behaviour
NextGate ==
  /\ probe = NoProbe
  /\ \E rev \in ParsedReviews \cup {NULL}, raw \in Texts(MaxLen) : ApplyAccept(rev, raw)

GateSpec == Init /\ [][NextGate]_vars

\* Number(headers["retry-after"]) of a header that holds n seconds
Seconds(n) == [finite |-> TRUE, n |-> n]

\* retry-after absent or not a number, zero, negative, small, at the cap of
\* 30 s and above it
RetryAfterValues == {NoNumber} \cup {Seconds(n) : n \in {-1, 0, 1, 2, 30, 31, 40}}

\* Math.floor(Math.random() * 400): the ends and the middle of 0..399
Jitters == {0, 200, 399}

\* one computation of the delay in the catch of callClaude / callGPT, which
\* is reached for attempts below maxRetries only (lines 195-203, 255-258)
ApplyWait(agent, attempt, retryAfter, jitter) ==
  /\ probe' = [op |-> "waitMs", agent |-> agent, attempt |-> attempt,
               retryAfter |-> retryAfter, jitter |-> jitter,
               out |-> WaitMs(agent, attempt, retryAfter, jitter)]
  /\ UNCHANGED <<env, apiCalls, pLimitDefault, claudeLimit, gptLimit, sess>>

NextWait ==
  /\ probe = NoProbe
  /\ \E agent \in {"Claude", "GPT"}, ra \in RetryAfterValues, j \in Jitters :
       \E attempt \in 0..MaxRetriesOf(agent) - 1 : ApplyWait(agent, attempt, ra, j)

WaitSpec == Init /\ [][NextWait]_vars

\* answers of lengths 0, 1, 2, 2 and 4
PickAnswers == {<<>>, <<"x">>, <<"x", ".">>, <<".", "x">>, <<"todo">>}

\* no review, or a parsed review with a confidence and a list of issues
PickReviews ==
  {NULL} \cup
  {[decision |-> "REVISE", is_complete |-> TRUE, has_unsupported_claims |-> FALSE,
    has_contradictions |-> FALSE, issues |-> iss, suggestions |-> <<>>,
    confidence |-> c] : c \in {0, 5, 9}, iss \in {<<>>, <<"vague", "short">>}}

\* one application of pickBest, with the arguments in the order of line 377
ApplyPick(cAns, gAns, cReviewOfG, gReviewOfC) ==
  /\ probe' = [op |-> "pickBest", cAns |-> cAns, gAns |-> gAns,
               cReviewOfG |-> cReviewOfG, gReviewOfC |-> gReviewOfC,
               out |-> pickBest(cAns, gAns, cReviewOfG, gReviewOfC)]
  /\ UNCHANGED <<env, apiCalls, pLimitDefault, claudeLimit, gptLimit, sess>>

NextPick ==
  /\ probe = NoProbe
  /\ \E cAns \in PickAnswers, gAns \in PickAnswers,
        cReviewOfG \in PickReviews, gReviewOfC \in PickReviews :
       ApplyPick(cAns, gAns, cReviewOfG, gReviewOfC)

PickSpec == Init /\ [][NextPick]_vars

\* a JSON array of n different numbers
ListOf(n) == [i \in 1..n |-> JNum(i)]

\* values of `decision`, of the lists and of `confidence` in a response that
\* JSON.parse accepts
DecisionValues == {JStr("ACCEPT"), JStr("revise"), JStr("maybe"), JAbsent}
ListValues ==
  {JAbsent, JStr("one"), JArr(<<JStr("vague"), JNull, JBool(TRUE)>>)}
    \cup {JArr(ListOf(n)) : n \in {0, 10, 11, 12}}
ConfidenceValues ==
  {JAbsent, JNull, JBool(TRUE), JBool(FALSE), JStr(""), JStr("0.9"), JStr("high"),
   JArr(<<>>)} \cup {JNum(n) : n \in {-3, 0, 7, 10, 15}}

ReviewTexts ==
  {Garbage} \cup
  {ReviewJson(d, ic, JBool(FALSE), JBool(FALSE), iss, sug, conf) :
     d \in DecisionValues, ic \in {JBool(TRUE), JAbsent}, iss \in ListValues,
     sug \in {JArr(<<>>), JArr(ListOf(11))}, conf \in ConfidenceValues}

\* one application of parseReviewJson (lines 352-366)
ApplyParse(text) ==
  /\ probe' = [op |-> "parseReviewJson", text |-> text, out |-> parseReviewJson(text)]
  /\ UNCHANGED <<env, apiCalls, pLimitDefault, claudeLimit, gptLimit, sess>>

NextParse ==
  /\ probe = NoProbe
  /\ \E text \in ReviewTexts : ApplyParse(text)

ParseSpec == Init /\ [][NextParse]_vars

\* what a reviewer may put in a field that should hold a boolean
FlagValues == {JBool(TRUE), JBool(FALSE), JAbsent, JNull, JStr("true"), JNum(1)}

\* review responses with a valid decision and any flag values
FlagTexts ==
  {ReviewJson(JStr(d), ic, uc, ct, JArr(<<>>), JArr(<<>>), JNum(9)) :
     d \in {"ACCEPT", "REVISE"}, ic \in FlagValues, uc \in FlagValues, ct \in FlagValues}

\* raw answers as runConsensus keeps them: finished, cut off, and without
\* the marker
RawAnswers == {<<"x", ".", "\n", EndToken>>, <<"x", ":", "\n", EndToken>>, <<"x", ".">>}

\* parseReviewJson followed by acceptByReview, as lines 452 and 491 do
ApplyParseAccept(text, raw) ==
  /\ probe' = [op |-> "parseAccept", text |-> text, raw |-> raw,
               rev |-> parseReviewJson(text),
               out |-> acceptByReview(parseReviewJson(text), raw)]
  /\ UNCHANGED <<env, apiCalls, pLimitDefault, claudeLimit, gptLimit, sess>>

NextParseAccept ==
  /\ probe = NoProbe
  /\ \E text \in FlagTexts, raw \in RawAnswers : ApplyParseAccept(text, raw)

ParseAcceptSpec == Init /\ [][NextParseAccept]_vars

\* parseInt(req.body.iterations) when the field is missing or does not start
\* with digits: NaN
NoInt == [isInt |-> FALSE, n |-> 0]

\* what parseInt may return for the `iterations` field, and the `mode` field
IterationsFields == {NoInt} \cup {IntField(n) : n \in -3..25}
ModeFields == {"fast", "FAST", "robust", "turbo", ""}

\* lines 546-547 of the handler, then line 392 of runConsensus
ApplyIterations(modeRaw, itersRaw) ==
  /\ probe' = [op |-> "iterations", modeRaw |-> modeRaw, itersRaw |-> itersRaw,
               mode |-> ParseMode(modeRaw),
               out |-> Iterations(ParseMode(modeRaw),
                                  ParseMaxIters(ParseMode(modeRaw), itersRaw))]
  /\ UNCHANGED <<env, apiCalls, pLimitDefault, claudeLimit, gptLimit, sess>>

NextIterations ==
  /\ probe = NoProbe
  /\ \E modeRaw \in ModeFields, itersRaw \in IterationsFields :
       ApplyIterations(modeRaw, itersRaw)

IterationsSpec == Init /\ [][NextIterations]_vars

\* what runConsensus does with the output of a solve call, and the gate on
\* it with a review that asks for nothing (lines 429-430, 491-492)
ApplySolved(output) ==
  /\ probe' = [op |-> "solved", output |-> output,
               raw |-> ensureEndToken(output),
               ans |-> stripEndToken(ensureEndToken(output)),
               out |-> acceptByReview(parseReviewJson(GoodReview), ensureEndToken(output))]
  /\ UNCHANGED <<env, apiCalls, pLimitDefault, claudeLimit, gptLimit, sess>>

NextSolved ==
  /\ probe = NoProbe
  /\ \E output \in Texts(MaxLen) : ApplySolved(output)

SolvedSpec == Init /\ [][NextSolved]_vars

InitRounds == InitWith(RoundsEnv)
RoundsSpec == InitRounds /\ [][Next]_vars

\* every step but the arrival of a request: the event loop runs what is
\* ready, and every agent call returns or throws
Progress(s) ==
  \/ ImportResolved(s)
  \/ Enqueue(s)
  \/ RunQueued(s)
  \/ \E err \in env.errors : HttpErrorThrown(s, err)
  \/ \E err \in env.errors, j \in env.jitters : HttpErrorRetried(s, err, j)
  \/ BackoffDone(s)
  \/ \E t \in env.texts : ClaudeSolved(s, t)
  \/ \E t \in env.texts : GptSolved(s, t)
  \/ \E raw \in env.claudeReviews : ClaudeReviewed(s, raw)
  \/ \E raw \in env.gptReviews : GptReviewed(s, raw)

InitLive == InitWith(LiveEnv)
LiveSpec == InitLive /\ [][Next]_vars /\ \A s \in Sessions : WF_vars(Progress(s))

\* runConsensus called directly, in fast mode
NextCall ==
  \E s \in env.sessions :
    \/ \E m \in env.modes, i \in env.iters : Call(s, m, i.n)
    \/ Progress(s)

InitFast == InitWith(FastEnv)
FastSpec == InitFast /\ [][NextCall]_vars

InitFallback == InitWith(FallbackEnv)
FallbackSpec == InitFallback /\ [][Next]_vars

InitConcurrent == InitWith(ConcurrentEnv)
ConcurrentSpec == InitConcurrent /\ [][Next]_vars

InitRetry == InitWith(RetryEnv)
RetrySpec == InitRetry /\ [][Next]_vars

InitHistory == InitWith(HistoryEnv)
HistorySpec == InitHistory /\ [][Next]_vars

InitPolicy == InitWith(PolicyEnv)
PolicySpec == InitPolicy /\ [][Next]_vars


\* ---------------------------------------------------- reading a session
TerminalTypes == {"consensus", "fallback", "error"}

EventsOf(r, type) == {i \in DOMAIN r.events : r.events[i].type = type}

Revising(r) ==
  {i \in EventsOf(r, "status") : r.events[i].message = "revising"}

Streaming(r) == r.httpStatus = 200

\* the attempts of round k at position pos that returned a response
OkAt(r, pos, k) ==
  {i \in DOMAIN r.log : r.log[i].pos = pos /\ r.log[i].iter = k /\ r.log[i].outcome = "ok"}

\* the calls (first attempts) of round k at position pos
CallsAt(r, pos, k) ==
  {i \in DOMAIN r.log : r.log[i].pos = pos /\ r.log[i].iter = k /\ r.log[i].attempt = 0}

TheOne(S) == CHOOSE i \in S : TRUE

\* what the two agents sent in round k, as the transport returned it
ClaudeOutput(r, k) == r.log[TheOne(OkAt(r, "claudeSolve", k))].text
GptOutput(r, k) == Trim(r.log[TheOne(OkAt(r, "gptSolve", k))].text)

FirstPos(who) == IF who = "Claude" THEN "crFirst" ELSE "grFirst"
RetryPos(who) == IF who = "Claude" THEN "crRetry" ELSE "grRetry"

\* the review of `who` in round k is settled: a parseable first response, or
\* any response to the second call
ReviewSettled(r, who, k) ==
  \/ OkAt(r, RetryPos(who), k) # {}
  \/ /\ OkAt(r, FirstPos(who), k) # {}
     /\ parseReviewJson(r.log[TheOne(OkAt(r, FirstPos(who), k))].raw) # NULL

ReviewOutput(r, who, k) ==
  IF OkAt(r, RetryPos(who), k) # {}
  THEN parseReviewJson(r.log[TheOne(OkAt(r, RetryPos(who), k))].raw)
  ELSE parseReviewJson(r.log[TheOne(OkAt(r, FirstPos(who), k))].raw)

RoundReviewed(r, k) == ReviewSettled(r, "Claude", k) /\ ReviewSettled(r, "GPT", k)

\* both directions of the gate on what the agents sent in round k
GatePassed(r, k) ==
  /\ acceptByReview(ReviewOutput(r, "Claude", k), ensureEndToken(GptOutput(r, k)))
  /\ acceptByReview(ReviewOutput(r, "GPT", k), ensureEndToken(ClaudeOutput(r, k)))

\* ------------------------------------------------------------------ claims

\* C1: in robust mode a `consensus` event of round r is emitted only if in
\* round r acceptByReview passed for Claude's review of GPT's answer and for
\* GPT's review of Claude's answer; a round with a failed gate has none.
C1_ConsensusOnlyWhenBothAccept ==
  \A s \in Sessions :
    sess[s].mode = "robust" =>
      /\ \A i \in EventsOf(sess[s], "consensus") :
           /\ sess[s].events[i].iteration \in 1..sess[s].iter
           /\ RoundReviewed(sess[s], sess[s].events[i].iteration)
           /\ GatePassed(sess[s], sess[s].events[i].iteration)
      /\ \A k \in 1..sess[s].iter :
           (RoundReviewed(sess[s], k) /\ ~GatePassed(sess[s], k)) =>
             \A i \in EventsOf(sess[s], "consensus") : sess[s].events[i].iteration # k

\* a robust session whose first round failed exactly one direction of the
\* gate and whose second round ended in consensus
C1_Witness ==
  \E s \in Sessions :
    /\ sess[s].mode = "robust"
    /\ \E i \in EventsOf(sess[s], "consensus") : sess[s].events[i].iteration = 2
    /\ RoundReviewed(sess[s], 1)
    /\ acceptByReview(ReviewOutput(sess[s], "Claude", 1), ensureEndToken(GptOutput(sess[s], 1)))
    /\ ~acceptByReview(ReviewOutput(sess[s], "GPT", 1), ensureEndToken(ClaudeOutput(sess[s], 1)))


\* the marker as a whole word somewhere in the text
ContainsMarker(raw) ==
  \E i \in 1..Len(raw) :
    /\ raw[i] = EndToken
    /\ (i = 1 \/ raw[i - 1] \notin {"x", "and", "todo", EndToken})
    /\ (i = Len(raw) \/ raw[i + 1] \notin {"x", "and", "todo", EndToken})

AllGateConditions(rev, raw) ==
  /\ rev # NULL
  /\ rev.decision = "ACCEPT"
  /\ rev.is_complete = TRUE
  /\ rev.has_unsupported_claims = FALSE
  /\ rev.has_contradictions = FALSE
  /\ ContainsMarker(raw)
  /\ ~looksTruncated(stripEndToken(raw))

RECURSIVE WithoutMarkers(_)
WithoutMarkers(t) ==
  IF t = <<>> THEN <<>>
  ELSE IF Head(t) = EndToken THEN WithoutMarkers(Tail(t))
  ELSE <<Head(t)>> \o WithoutMarkers(Tail(t))

\* the inputs that differ from an accepting (rev, raw) in one condition: the
\* review absent, one review field flipped, the markers removed from the
\* text, the text cut off after a colon
SingleFlips(rev, raw) ==
  {<<NULL, raw>>,
   <<[rev EXCEPT !.decision = "REVISE"], raw>>,
   <<[rev EXCEPT !.is_complete = FALSE], raw>>,
   <<[rev EXCEPT !.has_unsupported_claims = TRUE], raw>>,
   <<[rev EXCEPT !.has_contradictions = TRUE], raw>>,
   <<rev, WithoutMarkers(raw)>>,
   <<rev, raw \o <<":">> >>}

\* C2: acceptByReview(review, rawAnswer) is true exactly when the review is
\* present, its decision is ACCEPT, is_complete is true, both flags are
\* false, the raw answer contains the marker and the stripped answer does
\* not look truncated; flipping one condition of an accepted input rejects.
C2_GateIsConjunction ==
  probe.op = "acceptByReview" =>
    /\ probe.out = AllGateConditions(probe.rev, probe.raw)
    /\ probe.out =>
         \A f \in SingleFlips(probe.rev, probe.raw) : ~acceptByReview(f[1], f[2])

\* an accepted input
C2_Witness ==
  /\ probe.op = "acceptByReview"
  /\ probe.out
  /\ Len(probe.raw) = MaxLen


RoundsStarted(r) == Cardinality(EventsOf(r, "iteration"))

LastEvent(r) == r.events[Len(r.events)]

BoundedRounds(r) ==
  /\ \A i \in EventsOf(r, "iteration") : r.events[i].iteration \in 1..r.iterations
  /\ RoundsStarted(r) <= r.iterations
  /\ r.pc = "done" =>
       /\ LastEvent(r).type \in {"consensus", "fallback", "error"}
       /\ LastEvent(r).type = "fallback" => RoundsStarted(r) = r.iterations

\* C3: every session of runConsensus whose agent calls all return or throw
\* terminates: it starts no round beyond `iterations`, and it ends in
\* `consensus`, in `fallback` after exactly `iterations` rounds, or in an
\* error thrown by the transport.
C3_TerminatesWithinIterations ==
  /\ [](\A s \in Sessions : Streaming(sess[s]) => BoundedRounds(sess[s]))
  /\ \A s \in Sessions : Streaming(sess[s]) ~> (sess[s].pc = "done")

\* a robust session that ran all its rounds, more than one, into fallback
C3_Witness ==
  \E s \in Sessions :
    /\ sess[s].pc = "done"
    /\ sess[s].iterations = MaxRounds
    /\ LastEvent(sess[s]).type = "fallback"
    /\ RoundsStarted(sess[s]) = MaxRounds


\* the answer of an agent in round k: its output with the marker ensured and
\* then stripped
ClaudeAnswer(r, k) == stripEndToken(ensureEndToken(ClaudeOutput(r, k)))
GptAnswer(r, k) == stripEndToken(ensureEndToken(GptOutput(r, k)))

RevisionTurns(msgs) == {i \in DOMAIN msgs : msgs[i].role = "assistant"}

OneFastRound(r) ==
  /\ RoundsStarted(r) = 1
  /\ \A i \in EventsOf(r, "iteration") : r.events[i].iteration = 1
  /\ r.iter = 1
  /\ Revising(r) = {}
  /\ RevisionTurns(r.claudeMsgs) = {} /\ RevisionTurns(r.gptMsgs) = {}
  /\ EventsOf(r, "fallback") = {}
  /\ (r.pc = "done" /\ EventsOf(r, "error") = {}) =>
       /\ RoundReviewed(r, 1)
       /\ LastEvent(r).type = "consensus"
       /\ LastEvent(r).iteration = 1
       /\ LastEvent(r).answer =
            pickBest(ClaudeAnswer(r, 1), GptAnswer(r, 1),
                     ReviewOutput(r, "Claude", 1), ReviewOutput(r, "GPT", 1))

\* C4: a fast session, whatever maxIters runConsensus is called with and
\* whatever the reviews say, starts one round only, has no `revising`
\* status, no revision turn and no `fallback`, and when it ends without
\* transport error its last event is `consensus` of iteration 1 with the
\* answer pickBest chooses from the two answers and reviews of round 1.
C4_FastModeOneRound ==
  \A s \in Sessions :
    (sess[s].mode = "fast" /\ Streaming(sess[s])) => OneFastRound(sess[s])

\* a fast session called with more than one round that ended in consensus
\* although the gate of round 1 fails
C4_Witness ==
  \E s \in Sessions :
    /\ sess[s].mode = "fast"
    /\ sess[s].maxIters = MaxRounds
    /\ sess[s].pc = "done"
    /\ LastEvent(sess[s]).type = "consensus"
    /\ ~GatePassed(sess[s], 1)


\* round k has both reviews, and both are ACCEPT, complete and without
\* flags, on answers that carry the marker and are not truncated
BothSidesClean(r, k) ==
  /\ RoundReviewed(r, k)
  /\ AllGateConditions(ReviewOutput(r, "Claude", k), ensureEndToken(GptOutput(r, k)))
  /\ AllGateConditions(ReviewOutput(r, "GPT", k), ensureEndToken(ClaudeOutput(r, k)))

EndedInConsensusAt(r, k) ==
  /\ r.pc = "done"
  /\ LastEvent(r).type = "consensus"
  /\ LastEvent(r).iteration = k
  /\ \A i \in EventsOf(r, "iteration") : r.events[i].iteration <= k
  /\ RoundsStarted(r) = k
  /\ EventsOf(r, "fallback") = {}

\* C5: a robust session ends with `consensus` in the first round whose two
\* reviews are ACCEPT, complete and without flags on answers that carry the
\* marker and are not truncated; when that round is round 1 no second round
\* is started.
C5_ConsensusAtFirstCleanRound ==
  \A s \in Sessions :
    sess[s].mode = "robust" =>
      \A k \in 1..sess[s].iter :
        BothSidesClean(sess[s], k) =>
          /\ EndedInConsensusAt(sess[s], k)
          /\ \A j \in 1..(k - 1) : ~BothSidesClean(sess[s], j)

\* a robust session allowed several rounds that ended in consensus in round 1
C5_Witness ==
  \E s \in Sessions :
    /\ sess[s].mode = "robust"
    /\ sess[s].iterations = MaxRounds
    /\ BothSidesClean(sess[s], 1)
    /\ LastEvent(sess[s]).type = "consensus"
    /\ RoundsStarted(sess[s]) = 1


FlaggedBy(rev) == rev # NULL /\ (rev.has_unsupported_claims \/ rev.has_contradictions)

\* an answer is bad when it looks truncated or the other agent's review of
\* it raised a flag
BadAnswer(ans, reviewOfIt) == looksTruncated(ans) \/ FlaggedBy(reviewOfIt)

\* the answer the fallback is to carry, from the answers and reviews of the
\* last configured round
ExpectedFallback(r) ==
  LET K == r.iterations
      cAns == ClaudeAnswer(r, K)
      gAns == GptAnswer(r, K)
      crg == ReviewOutput(r, "Claude", K)
      grc == ReviewOutput(r, "GPT", K)
      cBad == BadAnswer(cAns, grc)
      gBad == BadAnswer(gAns, crg)
  IN IF cBad /\ ~gBad THEN gAns
     ELSE IF gBad /\ ~cBad THEN cAns
     ELSE pickBest(cAns, gAns, crg, grc)

AllRoundsFailed(r) ==
  \A k \in 1..r.iterations : RoundReviewed(r, k) /\ ~GatePassed(r, k)

\* C6: a robust session whose configured rounds all end without both gates
\* passing emits `fallback`; the fallback answer is the one answer of the
\* last round that is not bad when exactly one is bad (truncated, or flagged
\* by the other agent's last review), and otherwise pickBest of the two
\* last-round answers with the last-round reviews.
C6_FallbackChoosesNonBad ==
  \A s \in Sessions :
    (sess[s].mode = "robust" /\ Streaming(sess[s])) =>
      /\ AllRoundsFailed(sess[s]) =>
           (sess[s].pc = "done" /\ LastEvent(sess[s]).type = "fallback")
      /\ \A i \in EventsOf(sess[s], "fallback") :
           /\ AllRoundsFailed(sess[s])
           /\ RoundsStarted(sess[s]) = sess[s].iterations
           /\ sess[s].events[i].answer = ExpectedFallback(sess[s])

\* a fallback after several rounds in which only Claude's last answer is bad
\* and pickBest would have chosen it
C6_Witness ==
  \E s \in Sessions :
    /\ sess[s].mode = "robust"
    /\ sess[s].iterations = MaxRounds
    /\ LastEvent(sess[s]).type = "fallback"
    /\ BadAnswer(ClaudeAnswer(sess[s], MaxRounds), ReviewOutput(sess[s], "GPT", MaxRounds))
    /\ ~BadAnswer(GptAnswer(sess[s], MaxRounds), ReviewOutput(sess[s], "Claude", MaxRounds))
    /\ LastEvent(sess[s]).answer = GptAnswer(sess[s], MaxRounds)
    /\ pickBest(ClaudeAnswer(sess[s], MaxRounds), GptAnswer(sess[s], MaxRounds),
                ReviewOutput(sess[s], "Claude", MaxRounds),
                ReviewOutput(sess[s], "GPT", MaxRounds)) # GptAnswer(sess[s], MaxRounds)


\* an attempt that failed
FailedAttempt(e) == e.outcome \in {"thrown", "retried"}

\* an attempt the agent's retry rule lets repeat, made at the retry ceiling
FailedAtCeiling(e) ==
  /\ FailedAttempt(e)
  /\ Retryable(e.agent, e.status, e.shouldRetry)
  /\ e.attempt = MaxRetriesOf(e.agent)

\* C7: when retryable failures last until the retry ceiling of the agent is
\* reached, the call does not raise: it returns the empty string, and the
\* session does not end in `error` on that call.
C7_ExhaustionReturnsEmpty ==
  \A s \in Sessions :
    \A i \in DOMAIN sess[s].log :
      FailedAtCeiling(sess[s].log[i]) =>
        /\ sess[s].log[i].outcome # "thrown"
        /\ ~(i = Len(sess[s].log) /\ sess[s].pc = "done"
               /\ LastEvent(sess[s]).type = "error")

\* a failure with no should-retry signal and a status that is neither 429,
\* 529 nor 5xx
NonRetryableFailure(e) ==
  /\ FailedAttempt(e)
  /\ ~e.shouldRetry
  /\ e.status \notin {429, 529}
  /\ ~(e.status >= 500 /\ e.status <= 599)

\* C8: a non-retryable failure of any attempt is thrown at once: no attempt
\* and no sleep follows it, the session is over with an `error` event as its
\* last event, and it has neither `consensus` nor `fallback`.
C8_NonRetryablePropagates ==
  \A s \in Sessions :
    \A i \in DOMAIN sess[s].log :
      NonRetryableFailure(sess[s].log[i]) =>
        /\ i = Len(sess[s].log)
        /\ sess[s].log[i].outcome = "thrown"
        /\ sess[s].pc = "done"
        /\ sess[s].ended
        /\ LastEvent(sess[s]).type = "error"
        /\ EventsOf(sess[s], "consensus") = {}
        /\ EventsOf(sess[s], "fallback") = {}

\* a 401 that came after retried attempts of the same call
C8_Witness ==
  \E s \in Sessions :
    /\ sess[s].log # <<>>
    /\ NonRetryableFailure(Last(sess[s].log))
    /\ Last(sess[s].log).status = 401
    /\ Last(sess[s].log).attempt >= 2
    /\ LastEvent(sess[s]).type = "error"


ReviewEvents(r, who) ==
  SelectSeq(r.events, LAMBDA e : e.type = "review" /\ e.reviewer = who)

ParsedAt(r, pos, k) == parseReviewJson(r.log[TheOne(OkAt(r, pos, k))].raw)

\* the review calls of `who` in round k
ReviewCallsInOrder(r, who, k) ==
  LET first == CallsAt(r, FirstPos(who), k)
      retry == CallsAt(r, RetryPos(who), k)
      firstOk == OkAt(r, FirstPos(who), k)
      retryOk == OkAt(r, RetryPos(who), k)
      retryUnderWay == retry # {} \/ (r.pos = RetryPos(who) /\ r.iter = k)
  IN /\ Cardinality(first) <= 1
     /\ Cardinality(retry) <= 1
     /\ retryUnderWay <=> (firstOk # {} /\ ParsedAt(r, FirstPos(who), k) = NULL)
     /\ retry # {} =>
          /\ ~r.log[TheOne(first)].prompt.corrective
          /\ r.log[TheOne(retry)].prompt =
               [r.log[TheOne(first)].prompt EXCEPT !.corrective = TRUE]
     /\ ReviewSettled(r, who, k) =>
          /\ Len(ReviewEvents(r, who)) >= k
          /\ ReviewEvents(r, who)[k].result = ReviewOutput(r, who, k)
     /\ (retryOk # {} /\ ParsedAt(r, RetryPos(who), k) = NULL) =>
          /\ ReviewEvents(r, who)[k].result = NULL
          /\ TheOne(retryOk) = Len(r.log) => EventsOf(r, "error") = {}

\* C9: in each round each direction of review is called once; it is called
\* a second time exactly when the first output does not parse, with the same
\* prompt behind the corrective line; the review of the round is what the
\* last output parses to, null when the second output does not parse
\* either, and that does not abort the session.
C9_ReviewRetriedOnce ==
  \A s \in Sessions :
    Streaming(sess[s]) =>
      \A k \in 1..sess[s].iter : \A who \in {"Claude", "GPT"} :
        ReviewCallsInOrder(sess[s], who, k)

\* both outputs of Claude's review did not parse and the session went on to
\* GPT's review
C9_Witness ==
  \E s \in Sessions :
    /\ OkAt(sess[s], "crRetry", 1) # {}
    /\ ParsedAt(sess[s], "crRetry", 1) = NULL
    /\ OkAt(sess[s], "grFirst", 1) # {}
    /\ ParsedAt(sess[s], "grFirst", 1) # NULL
    /\ CallsAt(sess[s], "grRetry", 1) = {}
    /\ sess[s].pc = "done"


Terminals(r) == {i \in DOMAIN r.events : r.events[i].type \in TerminalTypes}

\* C10: a streaming session has at most one terminal event, `consensus`,
\* `fallback` or `error`; it is the last event and the response is ended
\* with it; an ended session has exactly one; `consensus` and `fallback`
\* never occur together.
C10_OneTerminalEvent ==
  \A s \in Sessions :
    Streaming(sess[s]) =>
      /\ Cardinality(Terminals(sess[s])) <= 1
      /\ \A i \in Terminals(sess[s]) :
           i = Len(sess[s].events) /\ sess[s].ended /\ sess[s].pc = "done"
      /\ sess[s].ended => Cardinality(Terminals(sess[s])) = 1
      /\ ~(EventsOf(sess[s], "consensus") # {} /\ EventsOf(sess[s], "fallback") # {})

\* a session that ended in `error` after both answers and a review were sent
C10_Witness ==
  \E s \in Sessions :
    /\ Streaming(sess[s])
    /\ sess[s].ended
    /\ LastEvent(sess[s]).type = "error"
    /\ EventsOf(sess[s], "review") # {}
    /\ Cardinality(Terminals(sess[s])) = 1


\* the sessions whose call to `agent` runs inside the agent's limiter: an
\* attempt is in flight or the call sleeps between two attempts
Executing(agent) ==
  {s \in Sessions : sess[s].call.agent = agent /\ sess[s].pc \in {"inflight", "sleeping"}}

\* the sessions whose call to `agent` waits in the limiter's queue
Waiting(agent) ==
  {s \in Sessions : sess[s].call.agent = agent /\ sess[s].pc = "queued"}

CapOf(agent) == IF agent = "Claude" THEN 1 ELSE 2

OwnAttempts(r) == Len(r.log)

\* C12: for any interleaving of sessions, the totalCalls a session reports
\* in its `consensus` or `fallback` event equals the number of agent call
\* attempts that session made itself.
C12_TotalCallsAreOwn ==
  \A s \in Sessions :
    \A i \in EventsOf(sess[s], "consensus") \cup EventsOf(sess[s], "fallback") :
      sess[s].events[i].totalCalls = OwnAttempts(sess[s])


\* the call of round k at position pos has been issued: the session awaits
\* it, or it made an attempt
Issued(r, pos, k) ==
  \/ r.pos = pos /\ r.iter = k /\ r.pc # "done"
  \/ CallsAt(r, pos, k) # {}

\* C13: within a round the two solve calls are issued together, the second
\* before the first has returned, and so are the two review calls: whenever
\* Claude's call of a round is issued, GPT's call of the same kind is too.
C13_CallsIssuedTogether ==
  \A s \in Sessions :
    Streaming(sess[s]) =>
      \A k \in 1..sess[s].iter :
        /\ Issued(sess[s], "claudeSolve", k) => Issued(sess[s], "gptSolve", k)
        /\ Issued(sess[s], "crFirst", k) => Issued(sess[s], "grFirst", k)

\* the call of round k at position pos has returned a response
Returned(r, pos, k) == OkAt(r, pos, k) # {}

\* C13 (as the code has it): within a round the calls are issued one after
\* another. GPT's solve call is issued only after Claude's solve call has
\* returned, Claude's review call only after GPT's solve call has returned,
\* and GPT's review call only after Claude's review is settled; a session
\* never has two calls outstanding.
C13_CallsIssuedInSequence ==
  \A s \in Sessions :
    Streaming(sess[s]) =>
      \A k \in 1..sess[s].iter :
        /\ Issued(sess[s], "gptSolve", k) => Returned(sess[s], "claudeSolve", k)
        /\ Issued(sess[s], "crFirst", k) => Returned(sess[s], "gptSolve", k)
        /\ Issued(sess[s], "grFirst", k) => ReviewSettled(sess[s], "Claude", k)
        /\ Cardinality({i \in DOMAIN sess[s].log :
                          sess[s].log[i].outcome = "pending"}) <= 1

\* GPT's review call is awaited in a round whose three earlier calls have
\* all returned
C13_Witness ==
  \E s \in Sessions :
    /\ Streaming(sess[s])
    /\ sess[s].pos = "grFirst" /\ sess[s].pc = "inflight"
    /\ Returned(sess[s], "claudeSolve", sess[s].iter)
    /\ Returned(sess[s], "gptSolve", sess[s].iter)
    /\ ReviewSettled(sess[s], "Claude", sess[s].iter)

\* ------------------------------------------------- the events of a round
\* what kind of event e is, without its payload
Shape(e) ==
  CASE e.type = "step" -> <<"step", e.model, e.action>>
    [] e.type = "answer" -> <<"answer", e.model>>
    [] e.type = "review" -> <<"review", e.reviewer, e.reviewed>>
    [] e.type = "status" -> <<"status", e.message>>
    [] OTHER -> <<e.type>>

\* the events of the round that opens at index i: from its `iteration` event
\* up to the next one, without the `fallback` and `error` events that follow
\* the loop
SelectShapes(evs, lo, hi, drop) ==
  LET idx == {j \in lo..hi : Shape(evs[j]) \notin drop}
      F[j \in lo - 1..hi] ==
        IF j < lo THEN <<>>
        ELSE IF j \in idx THEN Append(F[j - 1], Shape(evs[j])) ELSE F[j - 1]
  IN F[hi]

RoundEnd(r, i) ==
  LET later == {j \in EventsOf(r, "iteration") : j > i}
  IN IF later = {} THEN Len(r.events)
     ELSE (CHOOSE j \in later : \A m \in later : j <= m) - 1

AfterLoop == {<<"fallback">>, <<"error">>}
ReviewSteps == {<<"step", "Claude", "reviewing GPT">>, <<"step", "GPT", "reviewing Claude">>}

RoundEvents(r, i, drop) == SelectShapes(r.events, i, RoundEnd(r, i), AfterLoop \cup drop)

Decisions == {<<"consensus">>, <<"status", "revising">>}

\* seg follows `order` as far as it goes, and then holds one gate decision
InOrder(seg, order) ==
  /\ Len(seg) <= Len(order) + 1
  /\ \A j \in 1..Len(seg) :
       IF j <= Len(order) THEN seg[j] = order[j] ELSE seg[j] \in Decisions

\* a round opens only after the round before it has announced its revision
OpensAfterDecision(r, i) ==
  LET n == r.events[i].iteration IN
  IF n = 1 THEN \A j \in EventsOf(r, "iteration") : j >= i
  ELSE /\ Shape(r.events[i - 1]) = <<"status", "revising">>
       /\ r.events[i - 1].iteration = n - 1

\* the order of the sendEvent calls in the loop body (lines 422-479)
CodeOrder ==
  << <<"iteration">>,
     <<"step", "Claude", "solving">>, <<"answer", "Claude">>,
     <<"step", "GPT", "solving">>, <<"answer", "GPT">>,
     <<"step", "Claude", "reviewing GPT">>, <<"review", "Claude", "GPT">>,
     <<"step", "GPT", "reviewing Claude">>, <<"review", "GPT", "Claude">> >>

\* both solve steps before both answers
StepsFirstOrder ==
  << <<"iteration">>,
     <<"step", "Claude", "solving">>, <<"step", "GPT", "solving">>,
     <<"answer", "Claude">>, <<"answer", "GPT">>,
     <<"review", "Claude", "GPT">>, <<"review", "GPT", "Claude">> >>

\* C14 (as stated): in every round the events appear in the order iteration,
\* solve step of Claude, solve step of GPT, answer of Claude, answer of GPT,
\* review by Claude of GPT, review by GPT of Claude, then `consensus` or the
\* revising status (the steps that announce a review are left aside), and no
\* round opens before the decision of the round before it.
C14_StepsBeforeAnswers ==
  \A s \in Sessions :
    \A i \in EventsOf(sess[s], "iteration") :
      /\ InOrder(RoundEvents(sess[s], i, ReviewSteps), StepsFirstOrder)
      /\ OpensAfterDecision(sess[s], i)

\* C14 (as the code has it): in every round the events appear in the order
\* iteration, solve step of Claude, answer of Claude, solve step of GPT,
\* answer of GPT, review step of Claude, review by Claude of GPT, review step
\* of GPT, review by GPT of Claude, then `consensus` or the revising status;
\* each agent's answer is sent before the next call is announced, and no
\* round opens before the decision of the round before it.
C14_EventsInCodeOrder ==
  \A s \in Sessions :
    \A i \in EventsOf(sess[s], "iteration") :
      /\ InOrder(RoundEvents(sess[s], i, {}), CodeOrder)
      /\ OpensAfterDecision(sess[s], i)

\* a session whose first round ended in a revision and whose second round
\* ran through all its events to consensus
C14_Witness ==
  \E s \in Sessions :
    /\ Cardinality(EventsOf(sess[s], "iteration")) = 2
    /\ EventsOf(sess[s], "consensus") # {}
    /\ \A i \in EventsOf(sess[s], "iteration") :
         Len(RoundEvents(sess[s], i, {})) = Len(CodeOrder) + 1

\* ------------------------------------------------------ the retry loop
\* the attempts of the call of round k at position pos
AttemptsOf(r, pos, k) == {i \in DOMAIN r.log : r.log[i].pos = pos /\ r.log[i].iter = k}

\* the backoff sleeps of that call
SleepsOf(r, pos, k) == {i \in AttemptsOf(r, pos, k) : r.log[i].outcome = "retried"}

\* C15: one transport call makes at most maxRetries + 1 attempts and sleeps
\* at most maxRetries times (7 for Claude, 5 for GPT); its attempts are
\* numbered 0..maxRetries in order, and a failure of attempt maxRetries is
\* the last thing the call does: no sleep and no attempt follows it.
C15_BoundedAttempts ==
  \A s \in Sessions :
    \A pos \in Positions, k \in 1..sess[s].iter :
      \A A \in {AttemptsOf(sess[s], pos, k)} :
        \A i \in A :
          \A max \in {MaxRetriesOf(sess[s].log[i].agent)} :
            /\ max = IF sess[s].log[i].agent = "Claude" THEN 7 ELSE 5
            /\ Cardinality(A) <= max + 1
            /\ Cardinality(SleepsOf(sess[s], pos, k)) <= max
            /\ sess[s].log[i].attempt = Cardinality({j \in A : j < i})
            /\ sess[s].log[i].attempt <= max
            /\ (FailedAttempt(sess[s].log[i]) /\ sess[s].log[i].attempt = max) =>
                 /\ sess[s].log[i].outcome = "thrown"
                 /\ i = Len(sess[s].log)
                 /\ sess[s].pc = "done"

\* a call of Claude whose eight attempts all failed, seven of them followed
\* by a sleep
C15_Witness ==
  \E s \in Sessions :
    \E pos \in Positions :
      /\ Cardinality(AttemptsOf(sess[s], pos, 1)) = ClaudeMaxRetries + 1
      /\ Cardinality(SleepsOf(sess[s], pos, 1)) = ClaudeMaxRetries
      /\ Last(sess[s].log).agent = "Claude"
      /\ Last(sess[s].log).outcome = "thrown"

\* the same for GPT: six attempts, five sleeps
C15_GptAtCeiling ==
  \E s \in Sessions :
    \E pos \in Positions :
      /\ Cardinality(AttemptsOf(sess[s], pos, 1)) = GPTMaxRetries + 1
      /\ Cardinality(SleepsOf(sess[s], pos, 1)) = GPTMaxRetries
      /\ Last(sess[s].log).agent = "GPT"
      /\ Last(sess[s].log).outcome = "thrown"

\* ------------------------------------------------------- the retry rule
BelowCeiling(e) == e.attempt < MaxRetriesOf(e.agent)

ServerError(status) == status >= 500 /\ status <= 599

\* the failed attempt e was followed by a sleep, and by the next attempt of
\* the same call once the sleep was over
RetriedAt(r, i) ==
  /\ r.log[i].outcome = "retried"
  /\ IF i = Len(r.log) THEN r.pc = "sleeping"
     ELSE /\ r.log[i + 1].pos = r.log[i].pos
          /\ r.log[i + 1].iter = r.log[i].iter
          /\ r.log[i + 1].attempt = r.log[i].attempt + 1

\* the failed attempt e ended its call
NotRetriedAt(r, i) == r.log[i].outcome = "thrown" /\ i = Len(r.log) /\ r.pc = "done"

\* C16 (as stated): for either agent a failed attempt below the ceiling is
\* retried exactly when it carries the should-retry signal or has status
\* 529, 429 or 500..599.
C16_OneRuleForBothAgents ==
  \A s \in Sessions :
    \A i \in DOMAIN sess[s].log :
      \A e \in {sess[s].log[i]} :
        (FailedAttempt(e) /\ BelowCeiling(e)) =>
          IF e.shouldRetry \/ e.status \in {429, 529} \/ ServerError(e.status)
          THEN RetriedAt(sess[s], i)
          ELSE NotRetriedAt(sess[s], i)

\* C16 (as the code has it): a failed attempt of Claude below the ceiling is
\* retried exactly when it carries the should-retry signal or has status
\* 529, 429 or 500..599; a failed attempt of GPT below the ceiling is retried
\* exactly when its status is 429 or in 500..599, whatever the signal says.
\* Every other failure ends the call.
C16_RetryRulePerAgent ==
  \A s \in Sessions :
    \A i \in DOMAIN sess[s].log :
      \A e \in {sess[s].log[i]} :
        (FailedAttempt(e) /\ BelowCeiling(e)) =>
          IF \/ e.agent = "Claude" /\ e.shouldRetry
             \/ e.status = 429
             \/ ServerError(e.status)
          THEN RetriedAt(sess[s], i)
          ELSE NotRetriedAt(sess[s], i)

\* Claude retried a 401 that carried the signal, and GPT then threw a 401
\* that carried it too
C16_Witness ==
  \E s \in Sessions :
    \E i \in DOMAIN sess[s].log :
      /\ sess[s].log[i].agent = "Claude"
      /\ sess[s].log[i].status = 401 /\ sess[s].log[i].shouldRetry
      /\ RetriedAt(sess[s], i)
      /\ Last(sess[s].log).agent = "GPT"
      /\ Last(sess[s].log).status = 401 /\ Last(sess[s].log).shouldRetry
      /\ NotRetriedAt(sess[s], Len(sess[s].log))

\* ------------------------------------------------------ the retry delay
\* min(cap, base * 2^attempt) + jitter with base 800 and cap 15000
ComputedDelay(attempt, jitter) ==
  (IF 800 * 2^attempt < 15000 THEN 800 * 2^attempt ELSE 15000) + jitter

\* the hint in milliseconds, capped at 30000
HintDelay(seconds) == IF seconds * 1000 < 30000 THEN seconds * 1000 ELSE 30000

PositiveHint(ra) == ra.finite /\ ra.n > 0

\* C17 (as stated): for either agent the wait before a retry is the computed
\* delay min(15000, 800 * 2^attempt) + jitter, at most 15399 ms, unless the
\* failed response carries a positive retry-after hint: then it is the hint
\* in ms capped at 30000.
C17_HintOverridesForBothAgents ==
  probe.op = "waitMs" =>
    IF PositiveHint(probe.retryAfter)
    THEN probe.out = HintDelay(probe.retryAfter.n)
    ELSE /\ probe.out = ComputedDelay(probe.attempt, probe.jitter)
         /\ probe.out <= 15399

\* C17 (as the code has it): Claude waits the positive retry-after hint in
\* ms capped at 30000 when the response carries one, and the computed delay
\* min(15000, 800 * 2^attempt) + jitter otherwise; GPT always waits the
\* computed delay and does not read retry-after. The computed delay never
\* exceeds 15399 ms and no wait exceeds 30000 ms.
C17_WaitPerAgent ==
  probe.op = "waitMs" =>
    /\ IF probe.agent = "Claude" /\ PositiveHint(probe.retryAfter)
       THEN probe.out = HintDelay(probe.retryAfter.n) /\ probe.out <= 30000
       ELSE /\ probe.out = ComputedDelay(probe.attempt, probe.jitter)
            /\ probe.out <= 15399
    /\ probe.out >= 800

\* GPT before its last retry (800 * 2^4 = 12800, below the cap), with a
\* retry-after hint that Claude would have followed
C17_Witness ==
  /\ probe.op = "waitMs"
  /\ probe.agent = "GPT"
  /\ probe.attempt = GPTMaxRetries - 1
  /\ probe.retryAfter = Seconds(40)
  /\ probe.jitter = 399
  /\ probe.out = 13199

\* Claude before its last retry, where the cap of 15000 applies, without a
\* hint
C17_ClaudeAtCap ==
  /\ probe.op = "waitMs"
  /\ probe.agent = "Claude"
  /\ probe.attempt = ClaudeMaxRetries - 1
  /\ probe.retryAfter = Seconds(0)
  /\ probe.jitter = 399
  /\ probe.out = 15399

\* Claude with a hint above the cap of 30 s
C17_ClaudeFollowsHint ==
  /\ probe.op = "waitMs"
  /\ probe.agent = "Claude"
  /\ probe.retryAfter = Seconds(40)
  /\ probe.out = 30000

\* ------------------------------------------------------ the best answer
\* the confidence an answer received from its reviewer, in tenths; 0.5 when
\* the review is absent
Received(reviewOfIt) == IF reviewOfIt = NULL THEN 5 ELSE reviewOfIt.confidence

C18_ConfidenceBeatsLength ==
  /\ probe.op = "pickBest"
  /\ Received(probe.gReviewOfC) > Received(probe.cReviewOfG)
  /\ JsLength(probe.cAns) < JsLength(probe.gAns)
  /\ probe.out = probe.cAns

\* C19: when the two answers received equal confidence, pickBest returns the
\* answer whose review lists fewer issues, and the longer answer only when
\* the issue counts are equal too.
C19_FewerIssuesBreakTie ==
  (/\ probe.op = "pickBest"
   /\ probe.cReviewOfG # NULL /\ probe.gReviewOfC # NULL
   /\ probe.cReviewOfG.confidence = probe.gReviewOfC.confidence) =>
    LET issuesA == Len(probe.gReviewOfC.issues)
        issuesB == Len(probe.cReviewOfG.issues) IN
    /\ issuesA < issuesB => probe.out = probe.cAns
    /\ issuesB < issuesA => probe.out = probe.gAns

\* ------------------------------------------------------- a parsed review
\* the first ten entries of a source list, in order, as strings; nothing
\* when the field is not a list
FirstEntries(j) ==
  IF j.kind # "array" THEN <<>>
  ELSE [i \in 1..(IF Len(j.items) < 10 THEN Len(j.items) ELSE 10) |-> StringOf(j.items[i])]

\* a source confidence that is a number, or a string that spells one
Numeric(j) == j.kind = "number" \/ (j.kind = "string" /\ j.s = "0.9")

NumericValue(j) == IF j.kind = "number" THEN j.n ELSE 9

\* C20: a review that parseReviewJson returns has a confidence in [0,1]
\* (here 0..10 tenths): a source value below 0 gives 0, one above 1 gives 1,
\* a non-numeric one gives 0.5; its decision is ACCEPT or REVISE; its issues
\* and suggestions are the first ten entries of the source lists, in order.
C20_ParsedReviewInRange ==
  (probe.op = "parseReviewJson" /\ probe.out # NULL) =>
    /\ probe.out.confidence \in 0..10
    /\ \A c \in {probe.text.confidence} :
         IF ~Numeric(c) THEN probe.out.confidence = 5
         ELSE IF NumericValue(c) < 0 THEN probe.out.confidence = 0
         ELSE IF NumericValue(c) > 10 THEN probe.out.confidence = 10
         ELSE probe.out.confidence = NumericValue(c)
    /\ probe.out.decision \in {"ACCEPT", "REVISE"}
    /\ Len(probe.out.issues) <= 10 /\ Len(probe.out.suggestions) <= 10
    /\ probe.out.issues = FirstEntries(probe.text.issues)
    /\ probe.out.suggestions = FirstEntries(probe.text.suggestions)

\* the same without the default of 0.5: the range, the clamping of numbers,
\* the decision and the lists
C20_RangeDecisionAndLists ==
  (probe.op = "parseReviewJson" /\ probe.out # NULL) =>
    /\ probe.out.confidence \in 0..10
    /\ \A c \in {probe.text.confidence} :
         /\ (c.kind = "number" /\ c.n < 0) => probe.out.confidence = 0
         /\ (c.kind = "number" /\ c.n > 10) => probe.out.confidence = 10
         /\ (c.kind = "number" /\ c.n \in 0..10) => probe.out.confidence = c.n
         /\ c.kind = "absent" => probe.out.confidence = 5
    /\ probe.out.decision \in {"ACCEPT", "REVISE"}
    /\ Len(probe.out.issues) <= 10 /\ Len(probe.out.suggestions) <= 10
    /\ probe.out.issues = FirstEntries(probe.text.issues)
    /\ probe.out.suggestions = FirstEntries(probe.text.suggestions)

\* a review with twelve issues and a confidence above 1
C20_LongListClamped ==
  /\ probe.op = "parseReviewJson"
  /\ probe.out # NULL
  /\ probe.text.issues.kind = "array" /\ Len(probe.text.issues.items) = 12
  /\ Len(probe.out.issues) = 10
  /\ probe.text.confidence = JNum(15)
  /\ probe.out.confidence = 10

\* ------------------------------------------------- flags of a review
IsBoolean(j) == j.kind = "boolean"

\* C21: a review with a valid decision in which is_complete,
\* has_unsupported_claims or has_contradictions is missing or is not a
\* boolean is parsed into a review that acceptByReview rejects, whatever
\* the answer.
C21_MissingFlagsRejected ==
  (/\ probe.op = "parseAccept"
   /\ \/ ~IsBoolean(probe.text.is_complete)
      \/ ~IsBoolean(probe.text.has_unsupported_claims)
      \/ ~IsBoolean(probe.text.has_contradictions)) =>
    ~probe.out

\* the part that holds: a review whose is_complete is missing or not a
\* boolean is rejected
C21_MissingIsCompleteRejected ==
  (probe.op = "parseAccept" /\ ~IsBoolean(probe.text.is_complete)) => ~probe.out

\* a review that says ACCEPT and is_complete and names neither flag passes
\* the gate on a finished answer
C21_AcceptedWithoutFlags ==
  /\ probe.op = "parseAccept"
  /\ probe.text.has_unsupported_claims = JAbsent
  /\ probe.text.has_contradictions = JAbsent
  /\ probe.out

\* ------------------------------------------------- an unparseable review
\* the review of `who` in round k is absent after its retry
AbsentAfterRetry(r, who, k) ==
  /\ OkAt(r, RetryPos(who), k) # {}
  /\ parseReviewJson(r.log[TheOne(OkAt(r, RetryPos(who), k))].raw) = NULL

\* the agent whose answer `who` reviews, its history and the answer of the
\* reviewer that the revision prompt embeds
Reviewed(who) == IF who = "Claude" THEN "GPT" ELSE "Claude"
HistoryOf(r, agent) == IF agent = "Claude" THEN r.claudeMsgs ELSE r.gptMsgs
AnswerOf(r, agent, k) == IF agent = "Claude" THEN ClaudeAnswer(r, k) ELSE GptAnswer(r, k)

\* the lines of the default critique that a revision prompt prints
DefaultCritique ==
  [decision |-> "REVISE", is_complete |-> FALSE, has_unsupported_claims |-> TRUE,
   has_contradictions |-> FALSE, issues |-> <<"Review parse failed">>,
   suggestions |-> <<"Be complete and grounded.">>]

\* the calls of `agent` to solve in round k
SolveCalls(r, agent, k) ==
  CallsAt(r, IF agent = "Claude" THEN "claudeSolve" ELSE "gptSolve", k)

\* C22: in a round where a direction's review is absent after its retry,
\* acceptByReview of that direction is false and a robust session has no
\* consensus of that round; once the round has announced its revision, the
\* history of the agent whose answer was reviewed ends the round with a
\* revision prompt that carries the default critique (REVISE, is_complete
\* false, has_unsupported_claims true; its confidence is 0.2), and that is
\* the prompt of the agent's solve call in the next round.
C22_AbsentReviewNeverPasses ==
  /\ \A s \in Sessions, who \in {"Claude", "GPT"} :
       \A k \in 1..MaxRounds :
         (Streaming(sess[s]) /\ AbsentAfterRetry(sess[s], who, k)) =>
           /\ ~acceptByReview(ReviewOutput(sess[s], who, k),
                              ensureEndToken(AnswerOf(sess[s], Reviewed(who), k)))
           /\ sess[s].mode = "robust" =>
                \A i \in EventsOf(sess[s], "consensus") : sess[s].events[i].iteration # k
           /\ (\E i \in Revising(sess[s]) : sess[s].events[i].iteration = k) =>
                \A h \in {HistoryOf(sess[s], Reviewed(who))} :
                  /\ Len(h) >= 2 * k + 1
                  /\ h[2 * k + 1].role = "user"
                  /\ h[2 * k + 1].content.kind = "revision"
                  /\ h[2 * k + 1].content.name = Reviewed(who)
                  /\ h[2 * k + 1].content.critique = DefaultCritique
                  /\ defaultReview.confidence = 2
                  /\ \A c \in SolveCalls(sess[s], Reviewed(who), k + 1) :
                       sess[s].log[c].prompt = h[2 * k + 1].content

\* a robust session in which GPT's review of round 1 did not parse twice
\* and Claude was called in round 2 with the default critique
C22_Witness ==
  \E s \in Sessions :
    /\ sess[s].mode = "robust"
    /\ AbsentAfterRetry(sess[s], "GPT", 1)
    /\ \E c \in SolveCalls(sess[s], "Claude", 2) :
         sess[s].log[c].prompt.critique = DefaultCritique

\* ---------------------------------------------------- a missing key
\* a request that came without one of the two keys
KeyMissing(r) == r.pc # "idle" /\ (~r.claudeKey \/ ~r.openaiKey)

\* nothing was done for the request but the 400 response
RejectedUnstarted(r) ==
  /\ r.pc = "done" /\ r.ended
  /\ r.httpStatus = 400
  /\ r.events = <<>>
  /\ r.log = <<>>
  /\ r.call = NoCall

\* C23: a request without the key of either agent is answered 400 at once:
\* the session makes no attempt to either agent and emits no event, and the
\* step that rejects it leaves the call counter and the limiters as they
\* were, whatever other sessions are doing.
C23_MissingKeyFailsFirst ==
  /\ [](\A s \in Sessions : KeyMissing(sess[s]) => RejectedUnstarted(sess[s]))
  /\ [][\A s \in Sessions :
          (sess[s].pc = "idle" /\ KeyMissing(sess'[s])) =>
            UNCHANGED <<apiCalls, pLimitDefault, claudeLimit, gptLimit>>]_vars

\* a request without the OpenAI key rejected while another session has an
\* attempt in flight
C23_Witness ==
  \E s, t \in Sessions :
    /\ sess[s].claudeKey /\ ~sess[s].openaiKey
    /\ RejectedUnstarted(sess[s])
    /\ sess[t].pc = "inflight"
    /\ apiCalls >= 1

\* ------------------------------------------- the two flags of an answer
\* a review that asks for nothing
CleanReview(rev) ==
  /\ rev # NULL
  /\ rev.decision = "ACCEPT"
  /\ rev.is_complete
  /\ ~rev.has_unsupported_claims
  /\ ~rev.has_contradictions

\* C24 (as stated): both flags the gate uses for an answer, `has completion
\* token` and `looks truncated`, are computed from the post-strip text: with
\* a clean review the gate passes exactly when the stripped answer has the
\* marker and does not look truncated.
C24_BothFlagsFromStripped ==
  (probe.op = "acceptByReview" /\ CleanReview(probe.rev)) =>
    \A stripped \in {stripEndToken(probe.raw)} :
      probe.out = (hasEndToken(stripped) /\ ~looksTruncated(stripped))

\* C24 (as the code has it): `looks truncated` is computed from the
\* post-strip text and `has completion token` from the raw answer, which
\* still holds the marker: with a clean review the gate passes exactly when
\* the raw answer has the marker and the stripped answer does not look
\* truncated.
C24_TokenFromRawTruncationFromStripped ==
  (probe.op = "acceptByReview" /\ CleanReview(probe.rev)) =>
    probe.out = (hasEndToken(probe.raw) /\ ~looksTruncated(stripEndToken(probe.raw)))

\* an answer rejected for its stripped text, a colon before the marker,
\* although the raw text itself does not look truncated
C24_Witness ==
  /\ probe.op = "acceptByReview"
  /\ CleanReview(probe.rev)
  /\ hasEndToken(probe.raw)
  /\ ~looksTruncated(probe.raw)
  /\ looksTruncated(stripEndToken(probe.raw))
  /\ ~probe.out

\* an answer accepted whose stripped text has no marker left
C24_AcceptedOnRawMarker ==
  /\ probe.op = "acceptByReview"
  /\ probe.out
  /\ ~hasEndToken(stripEndToken(probe.raw))

\* ------------------------------------------------- the number of rounds
Clamped(n) == IF n < 1 THEN 1 ELSE IF n > 20 THEN 20 ELSE n

C25_ZeroGivesFive ==
  /\ probe.op = "iterations"
  /\ probe.mode = "robust"
  /\ probe.itersRaw = IntField(0)
  /\ probe.out = 5

\* ------------------------------------------------ the calls of fast mode
\* C26: a fast session that ends with an answer has made exactly 4 calls to
\* the agents, two to solve and two to review, and reports totalCalls = 4,
\* whatever the reviews say and whatever the transport does.
C26_FastMakesFourCalls ==
  \A s \in Sessions :
    (sess[s].mode = "fast" /\ sess[s].pc = "done") =>
      \A i \in EventsOf(sess[s], "consensus") :
        /\ Len(sess[s].log) = 4
        /\ sess[s].events[i].totalCalls = 4

\* the part that holds: when every review parses at once and no attempt
\* fails, the session makes 4 calls and reports 4
C26_FourCallsWhenNothingIsRepeated ==
  \A s \in Sessions :
    (/\ sess[s].mode = "fast" /\ sess[s].pc = "done"
     /\ \A j \in DOMAIN sess[s].log :
          /\ sess[s].log[j].outcome = "ok"
          /\ sess[s].log[j].pos \notin {"crRetry", "grRetry"}) =>
      \A i \in EventsOf(sess[s], "consensus") :
        /\ Len(sess[s].log) = 4
        /\ sess[s].events[i].totalCalls = 4

\* a fast session that repeated both reviews and reports 6 calls
C26_SixCalls ==
  \E s \in Sessions :
    /\ sess[s].mode = "fast" /\ sess[s].pc = "done"
    /\ \E i \in EventsOf(sess[s], "consensus") : sess[s].events[i].totalCalls = 6
    /\ \A j \in DOMAIN sess[s].log : sess[s].log[j].outcome = "ok"

\* ------------------------------------------------------ the two histories
Other(agent) == IF agent = "Claude" THEN "GPT" ELSE "Claude"

\* the lines of a critique that a revision prompt prints
CritiqueOf(rev) ==
  IF rev = NULL THEN DefaultCritique
  ELSE [decision |-> rev.decision, is_complete |-> rev.is_complete,
        has_unsupported_claims |-> rev.has_unsupported_claims,
        has_contradictions |-> rev.has_contradictions,
        issues |-> rev.issues, suggestions |-> rev.suggestions]

\* user, assistant, user, ... ending with a user turn
Alternates(h) ==
  /\ Len(h) % 2 = 1
  /\ \A i \in DOMAIN h : h[i].role = IF i % 2 = 1 THEN "user" ELSE "assistant"

\* the two turns that round k added to the history of `agent`
GrownBy(r, agent, k) ==
  \A h \in {HistoryOf(r, agent)} :
    /\ h[2 * k].content.kind = "answer"
    /\ h[2 * k].content.answer = AnswerOf(r, agent, k) \o <<"\n", EndToken>>
    /\ h[2 * k + 1].content.kind = "revision"
    /\ h[2 * k + 1].content.name = agent
    /\ h[2 * k + 1].content.answer = clampForReview(AnswerOf(r, Other(agent), k))
    /\ h[2 * k + 1].content.critique = CritiqueOf(ReviewOutput(r, Other(agent), k))

\* C27: each history starts with the solver prompt of its agent and grows
\* by two turns per round that failed the gate: the agent's own answer of
\* the round as assistant, then as user a revision prompt with the other
\* agent's answer of the round and the critique the other agent wrote about
\* this agent's answer. A history has 2k-1 turns in round k, alternates
\* user / assistant, ends with a user turn, and each solve call sends the
\* last turn of its own agent's history.
C27_HistoriesGrowByTwo ==
  \A s \in Sessions :
    Streaming(sess[s]) =>
      \A agent \in {"Claude", "GPT"} :
        \A h \in {HistoryOf(sess[s], agent)} :
          /\ Alternates(h)
          /\ Len(h) = 2 * Cardinality(Revising(sess[s])) + 1
          /\ Len(h) = 2 * sess[s].iter - 1
          /\ h[1].content.kind = "solver" /\ h[1].content.name = agent
          /\ \A i \in Revising(sess[s]) : GrownBy(sess[s], agent, sess[s].events[i].iteration)
          /\ \A k \in 1..sess[s].iter :
               \A c \in SolveCalls(sess[s], agent, k) :
                 sess[s].log[c].prompt = h[2 * k - 1].content

\* round 2 of a robust session in which the two answers of round 1 differ,
\* as do the two critiques
C27_Witness ==
  \E s \in Sessions :
    /\ Streaming(sess[s])
    /\ SolveCalls(sess[s], "GPT", 2) # {}
    /\ Len(sess[s].claudeMsgs) = 3 /\ Len(sess[s].gptMsgs) = 3
    /\ ClaudeAnswer(sess[s], 1) # GptAnswer(sess[s], 1)
    /\ sess[s].claudeMsgs[3].content.critique # sess[s].gptMsgs[3].content.critique

C28_EmptyOutput ==
  /\ probe.op = "solved"
  /\ probe.output = <<>>
  /\ probe.raw = <<EndToken>>
  /\ ~probe.out

\* ---------------------------------------------------- one limiter each
\* the sessions that are past getLimiters in a call of `agent`
ThroughLimiter(agent) ==
  {s \in Sessions : sess[s].call.agent = agent
                      /\ sess[s].pc \in {"limitersReady", "queued", "inflight", "sleeping"}}

\* every call of `agent` that entered a limiter is held by the limiter the
\* process has now
HoldsAllCalls(agent) ==
  \A lim \in {LimiterOf(agent)} :
    /\ ThroughLimiter(agent) # {} => lim # NULL
    /\ lim # NULL =>
         /\ lim.concurrency = CapOf(agent)
         /\ lim.activeCount = Cardinality(Executing(agent))
         /\ {lim.queue[i] : i \in DOMAIN lim.queue} = Waiting(agent)
         /\ Len(lim.queue) = Cardinality(Waiting(agent))

\* a step keeps the limiter and changes it by one call at most: a call
\* joins the queue, the head of the queue starts, or a running call ends
SameInstance(old, new) ==
  /\ new # NULL
  /\ new.concurrency = old.concurrency
  /\ \/ new = old
     \/ new.activeCount = old.activeCount /\ \E s \in Sessions : new.queue = Append(old.queue, s)
     \/ new.activeCount = old.activeCount + 1 /\ old.queue # <<>> /\ new.queue = Tail(old.queue)
     \/ new.activeCount = old.activeCount - 1 /\ new.queue = old.queue

\* C29: the limiter of each agent is created at most once, also when
\* sessions interleave at the import inside getLimiters: once an agent has
\* a limiter no step replaces it, and every call to the agent, from any
\* session, is counted or queued in that one limiter.
C29_OneLimiterPerAgent ==
  /\ [](\A agent \in {"Claude", "GPT"} : HoldsAllCalls(agent))
  /\ [][claudeLimit # NULL => SameInstance(claudeLimit, claudeLimit')]_vars
  /\ [][gptLimit # NULL => SameInstance(gptLimit, gptLimit')]_vars
  /\ [][pLimitDefault => pLimitDefault']_vars

\* a session still awaits the import it started while the limiter that
\* another session created runs that session's call
C29_Witness ==
  \E s, t \in Sessions :
    /\ sess[s].pc = "importing" /\ sess[s].call.agent = "Claude"
    /\ sess[t].pc = "inflight" /\ sess[t].call.agent = "Claude"
    /\ pLimitDefault
    /\ claudeLimit # NULL /\ claudeLimit.activeCount = 1

====
